---- MODULE Spec2Model ----
(***************************************************************************)
(* The sequence-to-sequence notebooks: Seq2Seq.forward with the attention  *)
(* decoder (BLEU lab), the three training loops, and the BLEU evaluation.  *)
(* Indices are 0-based as in the Python source (functions over 0..n-1).    *)
(* Framework layers (embedding, GRU, linear) are opaque: their results are *)
(* terms built from their arguments, or values drawn from small sets where *)
(* the repository's own code computes on them (argmax, softmax).           *)
(***************************************************************************)
EXTENDS Integers, Sequences, FiniteSets, TLC

(* ------------------------------ bounds --------------------------------- *)
MaxBatch == 2
MaxSrcLen == 2
MaxTrgLen == 3
VocabSize == 6
MaxSentLen == 3
MaxEpochs == 2
MaxBatches == 2
MaxExtra == 2
MaxDim == 2
MaxSeed == 3

(* index of '<sos>' in the target vocabulary, hard-coded in Seq2Seq.forward *)
SOS_IDX == 2

BatchSizes == 1..MaxBatch
\* a source sentence always holds <sos> and <eos> (Field init_token/eos_token)
SrcLens == 2..MaxSrcLen
TrgLens == 1..MaxTrgLen

Range(n) == 0..(n - 1)

VARIABLES
  \* ---- Seq2Seq.forward (attention model) ----
  fpc,          \* position in Seq2Seq.forward / Decoder.forward
  src,          \* argument src: [src_len][batch] of tokens
  trg_len,      \* argument trg_len
  batch_size, src_len,
  pred_probas,  \* [trg_len][batch][vocab]
  attn,         \* [batch][src_len][trg_len] of fractions <<num, den>>
  enc_outputs, hidden, input_idx, t,
  dec,          \* locals of the running Decoder.forward call
  enc_log,      \* history: one entry per encoder application
  dec_log,      \* history: one entry per completed Decoder.forward call
  \* ---- the training functions ----
  tpc,          \* position in the training function
  fn,           \* which training function runs
  model_name,   \* argument model_name (validation variants)
  num_epochs,   \* argument num_epochs
  train_dataloader,  \* the set of batches of the dataloader
  epoch,        \* loop variable of 'for epoch in range(num_epochs)'
  pending,      \* batches the dataloader has not yielded yet in this epoch
  batch,        \* the current batch
  params,       \* version of the model's parameters (one per optimizer step)
  grads,        \* state of the gradients
  pred, loss, loss_current_epoch,
  loss_total,   \* loss_total / loss_train_total
  val_total,    \* loss_val_total / bleu_val_total
  files,        \* the file system: file name -> saved parameters or NoFile
  load_result,  \* outcome of load_state_dict(torch.load(...)) after training
  ops,          \* history: <<batch, operation>> events of the current epoch
  fetched,      \* history: batches in the order yielded in this epoch
  epoch_hist,   \* history: per finished epoch, its final parameters and steps
  loss_items,   \* history: the values loss.item() returned in this epoch
  \* ---- evaluate_bleu ----
  epc,          \* position in evaluate_bleu
  eval_dataloader,   \* the batches of the dataloader, in iteration order
  eval_pos,     \* number of batches yielded so far
  ebatch,       \* the current batch
  eval_probas,  \* the model's predictions for the current batch
  trg_pred,     \* argmax of the model's predictions for the current batch
  trg_pred_all, trg_all,
  bleu,         \* the arguments bleu_score was called with
  \* ---- cut_tokens ----
  cpc, sentence, cut_result,
  \* ---- the loss of one batch (training and evaluation functions) ----
  lpc,          \* position in the lines that compute the loss
  lfn,          \* the function these lines belong to
  l_pred,       \* pred_probas: [trg_len][batch] of rows, later flattened
  l_trg,        \* trg: [trg_len][batch] of tokens, later flattened
  l_batch,      \* the batch the loop fetched (batch.trg is never rebound)
  l_args,       \* the arguments loss_fn was called with
  \* ---- the cell that loads and subsets the dataset ----
  dpc,          \* position in the cell
  notebook,     \* the notebook the cell belongs to
  train_data, valid_data, test_data,   \* the .examples list of each split
  splits,       \* what Multi30k.splits returned (never rebound)
  \* ---- vizualize_attention ----
  vpc,          \* position in the cell / the function
  attention,    \* argument attention, rebound by the squeeze and by the slice
  viz_sentence, \* argument sentence: the source tokens
  translation,  \* argument translation: the target tokens
  y_ticks, x_ticks,
  shown,        \* what was handed to matshow and to the tick labels
  \* ---- the cells that build the model and print its size ----
  ppc,          \* position in the cells
  hp,           \* the hyperparameters the modules are built with
  encoder, decoder, model,   \* the module objects
  printed,      \* the numbers of parameters printed so far
  \* ---- the save / load cells of the basics lab ----
  spc,          \* position in the cells
  disk,         \* the working directory: path -> file content
  x_np, x_np_load, x_tensor, x_tensor_load,
  linear_layer, \* the layer after the optimizer step
  loaded_model, \* the notebook's variable 'model'
  raised,       \* the exception raised by a cell, if any
  \* ---- the shapes of the tensors in Seq2Seq.forward ----
  qpc,          \* position in Seq2Seq.forward / Decoder.forward
  dims,         \* the sizes the modules were built with and those of the batch
  q_enc,        \* shape of enc_outputs, <<>> before the encoder ran
  hidden_shape, \* shape of the loop variable hidden
  q_t,          \* loop variable t
  q_dec,        \* shapes of the locals of the running Decoder.forward call
  q_steps,      \* number of decoder calls that returned
  q_error       \* the error that left forward, if any, and where it was raised

fvars == <<fpc, src, trg_len, batch_size, src_len, pred_probas, attn,
           enc_outputs, hidden, input_idx, t, dec, enc_log, dec_log>>

tvars == <<tpc, fn, model_name, num_epochs, train_dataloader, epoch, pending, batch,
           params, grads, pred, loss, loss_current_epoch, loss_total, val_total,
           files, load_result, ops, fetched, epoch_hist, loss_items>>

bvars == <<epc, eval_dataloader, eval_pos, ebatch, eval_probas, trg_pred, trg_pred_all, trg_all, bleu>>

cvars == <<cpc, sentence, cut_result>>

lvars == <<lpc, lfn, l_pred, l_trg, l_batch, l_args>>

dvars == <<dpc, notebook, train_data, valid_data, test_data, splits>>

zvars == <<vpc, attention, viz_sentence, translation, y_ticks, x_ticks, shown>>

pvars == <<ppc, hp, encoder, decoder, model, printed>>

svars == <<spc, disk, x_np, x_np_load, x_tensor, x_tensor_load, linear_layer,
           loaded_model, raised>>

qvars == <<qpc, dims, q_enc, hidden_shape, q_t, q_dec, q_steps, q_error>>

\* the state of the cells added after the four above
xvars == <<lvars, dvars, zvars, pvars, svars, qvars>>

\* everything but the shapes in Seq2Seq.forward
notq == <<fvars, tvars, bvars, cvars, lvars, dvars, zvars, pvars, svars>>

\* everything but the state of the save / load cells
nots == <<fvars, tvars, bvars, cvars, lvars, dvars, zvars, pvars, qvars>>

\* everything but the state of the model-building cells
notp == <<fvars, tvars, bvars, cvars, lvars, dvars, zvars, svars, qvars>>

\* everything but the state of the loss lines
notl == <<fvars, tvars, bvars, cvars, dvars, zvars, pvars, svars, qvars>>

\* everything but the state of the dataset cell
notd == <<fvars, tvars, bvars, cvars, lvars, zvars, pvars, svars, qvars>>

\* everything but the state of vizualize_attention
notz == <<fvars, tvars, bvars, cvars, lvars, dvars, pvars, svars, qvars>>

(* ------------------------- tensors and helpers ------------------------- *)
\* a fraction num/den, den > 0
Frac(n, d) == <<n, d>>
FZero == Frac(0, 1)

\* torch.argmax(-1) of one row: the index of the first maximal value
ArgMax(row) ==
  CHOOSE i \in DOMAIN row :
    /\ \A j \in DOMAIN row : row[j] <= row[i]
    /\ \A j \in DOMAIN row : (j < i) => row[j] < row[i]

\* stand-in for exp on the small integer energies: positive and increasing
ExpW(e) == 2 ^ e

RECURSIVE SumOver(_, _)
SumOver(f, S) ==
  IF S = {} THEN 0
  ELSE LET x == CHOOSE y \in S : TRUE IN f[x] + SumOver(f, S \ {x})

\* nn.Softmax(dim=0) of a [batch][src_len] matrix: normalises over the batch
SoftmaxDim0(m) ==
  [b \in DOMAIN m |-> [s \in DOMAIN m[b] |->
     Frac(ExpW(m[b][s]), SumOver([bb \in DOMAIN m |-> ExpW(m[bb][s])], DOMAIN m))]]

\* nn.Softmax(dim=1) of a [batch][src_len] matrix: normalises over src_len
SoftmaxDim1(m) ==
  [b \in DOMAIN m |-> [s \in DOMAIN m[b] |->
     Frac(ExpW(m[b][s]), SumOver([ss \in DOMAIN m[b] |-> ExpW(m[b][ss])], DOMAIN m[b]))]]

(* ------------------ values the opaque layers may return ---------------- *)
\* rows of the decoder's linear layer (one per batch element): a single peak
\* on the last vocabulary entry, or a tie between entries 0 and 1
LogitRows ==
  { [v \in Range(VocabSize) |-> IF v = VocabSize - 1 THEN 1 ELSE 0],
    [v \in Range(VocabSize) |-> IF v \in {0, 1} THEN 1 ELSE 0] }

\* values of self.v(energy).squeeze(2), a [batch][src_len] matrix: flat; one
\* larger entry for the first batch element only; one larger entry per batch
\* element, at a position that differs between neighbours
EnergyMatrices(B, n) ==
  { [b \in B |-> [s \in Range(n) |-> 0]],
    [b \in B |-> [s \in Range(n) |-> IF b = 0 /\ s = 0 THEN 1 ELSE 0]],
    [b \in B |-> [s \in Range(n) |-> IF s = b % n THEN 1 ELSE 0]] }

NoDec == [pc |-> "idle"]

(* ------------- the parts of the notebook that are not running --------- *)
IdleForward ==
  /\ fpc = "idle" /\ src = <<>> /\ trg_len = 0 /\ batch_size = 0 /\ src_len = 0
  /\ pred_probas = <<>> /\ attn = <<>> /\ enc_outputs = <<>> /\ hidden = <<>>
  /\ input_idx = <<>> /\ t = 0 /\ dec = NoDec /\ enc_log = <<>> /\ dec_log = <<>>

IdleTrain ==
  /\ tpc = "idle" /\ fn = "none" /\ model_name = "none" /\ num_epochs = 0
  /\ train_dataloader = {} /\ epoch = 0 /\ pending = {} /\ batch = 0
  /\ params = 0 /\ grads = "none" /\ pred = <<>> /\ loss = 0
  /\ loss_current_epoch = 0 /\ loss_total = <<>> /\ val_total = <<>>
  /\ files = <<>> /\ load_result = "none"
  /\ ops = <<>> /\ fetched = <<>> /\ epoch_hist = <<>> /\ loss_items = <<>>

IdleBleu ==
  /\ epc = "idle" /\ eval_dataloader = <<>> /\ eval_pos = 0 /\ ebatch = <<>>
  /\ eval_probas = <<>>
  /\ trg_pred = <<>> /\ trg_pred_all = <<>> /\ trg_all = <<>> /\ bleu = <<>>

IdleCut == cpc = "idle" /\ sentence = <<>> /\ cut_result = <<>>

IdleLoss ==
  /\ lpc = "idle" /\ lfn = "none" /\ l_pred = <<>> /\ l_trg = <<>>
  /\ l_batch = <<>> /\ l_args = <<>>

IdleData ==
  /\ dpc = "idle" /\ notebook = "none" /\ train_data = <<>> /\ valid_data = <<>>
  /\ test_data = <<>> /\ splits = <<>>

IdleViz ==
  /\ vpc = "idle" /\ attention = <<>> /\ viz_sentence = <<>> /\ translation = <<>>
  /\ y_ticks = <<>> /\ x_ticks = <<>> /\ shown = <<>>

NoModule == [own |-> {}, children |-> <<>>]

IdleParams ==
  /\ ppc = "idle" /\ hp = <<>> /\ encoder = NoModule /\ decoder = NoModule
  /\ model = NoModule /\ printed = <<>>

IdleSave ==
  /\ spc = "idle" /\ disk = <<>> /\ x_np = <<>> /\ x_np_load = <<>> /\ x_tensor = <<>>
  /\ x_tensor_load = <<>> /\ linear_layer = <<>> /\ loaded_model = <<>> /\ raised = "none"

NoError == [raised |-> "none", where |-> "none", step |-> 0]

IdleShape ==
  /\ qpc = "idle" /\ dims = <<>> /\ q_enc = <<>> /\ hidden_shape = <<>>
  /\ q_t = 0 /\ q_dec = <<>>
  /\ q_steps = 0 /\ q_error = NoError

IdleExtra == IdleLoss /\ IdleData /\ IdleViz /\ IdleParams /\ IdleSave /\ IdleShape

(* ------------------------------ Encoder -------------------------------- *)
\* Encoder.forward: embedding, dropout, GRU; returns all outputs and the
\* final hidden state (the context vector)
Encoder(x) ==
  [outputs |-> [s \in DOMAIN x |-> [b \in DOMAIN x[s] |-> <<"h", s, b>>]],
   context |-> [b \in DOMAIN x[0] |-> <<"z", b>>]]

(* --------------------------- Seq2Seq.forward --------------------------- *)
InitForward ==
  /\ fpc = "start"
  /\ \E S \in SrcLens, B \in BatchSizes :
       src = [s \in Range(S) |-> [b \in Range(B) |-> <<"x", s, b>>]]
  /\ trg_len \in TrgLens
  /\ batch_size = 0 /\ src_len = 0
  /\ pred_probas = <<>> /\ attn = <<>>
  /\ enc_outputs = <<>> /\ hidden = <<>> /\ input_idx = <<>>
  /\ t = 0
  /\ dec = NoDec
  /\ enc_log = <<>> /\ dec_log = <<>>
  /\ IdleTrain /\ IdleBleu /\ IdleCut /\ IdleExtra

\* lines 243-248: allocate pred_probas (one-hot <sos> at position 0) and attn
ForwardAlloc ==
  /\ fpc = "start"
  /\ LET B == Cardinality(DOMAIN src[0])
         S == Cardinality(DOMAIN src)
     IN /\ batch_size' = B
        /\ src_len' = S
        /\ pred_probas' =
             [i \in Range(trg_len) |-> [b \in Range(B) |-> [v \in Range(VocabSize) |->
                IF i = 0 /\ v = SOS_IDX THEN 1 ELSE 0]]]
        /\ attn' = [b \in Range(B) |-> [s \in Range(S) |-> [i \in Range(trg_len) |-> FZero]]]
  /\ fpc' = "encode"
  /\ UNCHANGED <<xvars, tvars, bvars, cvars, src, trg_len, enc_outputs, hidden, input_idx, t, dec, enc_log, dec_log>>

\* line 250: enc_outputs, hidden = self.encoder(src)
ForwardEncode ==
  /\ fpc = "encode"
  /\ LET r == Encoder(src)
     IN /\ enc_outputs' = r.outputs
        /\ hidden' = r.context
        /\ enc_log' = Append(enc_log, [dec_calls_before |-> Len(dec_log),
                                       outputs |-> r.outputs, context |-> r.context])
  /\ fpc' = "first_input"
  /\ UNCHANGED <<xvars, tvars, bvars, cvars, src, trg_len, batch_size, src_len, pred_probas, attn, input_idx, t, dec, dec_log>>

\* line 252: input_idx = torch.ones(batch_size).int() * 2
ForwardFirstInput ==
  /\ fpc = "first_input"
  /\ input_idx' = [b \in Range(batch_size) |-> 1 * SOS_IDX]
  /\ t' = 1
  /\ fpc' = "loop"
  /\ UNCHANGED <<xvars, tvars, bvars, cvars, src, trg_len, batch_size, src_len, pred_probas, attn, enc_outputs, hidden, dec, enc_log, dec_log>>

\* line 254: for t in range(1, trg_len); line 255: call self.decoder
ForwardCallDecoder ==
  /\ fpc = "loop"
  /\ t < trg_len
  /\ dec' = [pc |-> "embed", input_idx |-> input_idx, input_hidden |-> hidden,
             enc_outputs |-> enc_outputs]
  /\ fpc' = "decoder"
  /\ UNCHANGED <<xvars, tvars, bvars, cvars, src, trg_len, batch_size, src_len, pred_probas, attn, enc_outputs,
                 hidden, input_idx, t, enc_log, dec_log>>

(* --------------------------- Decoder.forward --------------------------- *)
\* tensor.permute(1, 0, ...) of a 2-level tensor
Permute10(m) ==
  LET i0 == CHOOSE i \in DOMAIN m : TRUE
  IN [j \in DOMAIN m[i0] |-> [i \in DOMAIN m |-> m[i][j]]]

\* tensor.unsqueeze(1) of a [batch][src_len] tensor: [batch][1][src_len]
Unsqueeze1(m) == [b \in DOMAIN m |-> [o \in Range(1) |-> m[b]]]

\* tensor.squeeze() of a [batch][1][src_len] tensor drops every dimension of
\* size 1: [batch][src_len], or [src_len] alone when batch = 1 (src_len >= 2)
Squeeze(m3) ==
  IF Cardinality(DOMAIN m3) = 1
  THEN [rank |-> 1, val |-> m3[0][0]]
  ELSE [rank |-> 2, val |-> [b \in DOMAIN m3 |-> m3[b][0]]]

\* a mutant of DecoderAttentionArgs: attention sees the last encoder output only
AttentionContextOnly(input_hidden, outputs) ==
  [dec_hidden |-> input_hidden,
   enc_outputs |-> [s \in Range(1) |-> outputs[Cardinality(DOMAIN outputs) - 1]]]

\* line 211: the arguments of self.attention(input_hidden, enc_outputs)
DecoderAttentionArgs(input_hidden, outputs) ==
  [dec_hidden |-> input_hidden, enc_outputs |-> outputs]

\* lines 207-208: y = dropout(embedding(input_idx)).unsqueeze(0)
DecEmbed ==
  /\ fpc = "decoder" /\ dec.pc = "embed"
  /\ dec' = [pc |-> "attention",
             y |-> [b \in DOMAIN dec.input_idx |-> <<"emb", dec.input_idx[b]>>]] @@ dec
  /\ UNCHANGED <<xvars, tvars, bvars, cvars, fpc, src, trg_len, batch_size, src_len, pred_probas, attn, enc_outputs,
                 hidden, input_idx, t, enc_log, dec_log>>

\* lines 178-180 of Attention.forward: attn = Softmax(dim=1)(v(energy).squeeze(2))
AttentionSoftmax(energy) == SoftmaxDim1(energy)

\* line 211 with Attention.forward (lines 161-182): one energy per batch
\* element and source position, from the repeated decoder hidden state
\* concatenated with the encoder outputs, then the softmax
DecAttention ==
  /\ fpc = "decoder" /\ dec.pc = "attention"
  /\ LET q == DecoderAttentionArgs(dec.input_hidden, dec.enc_outputs)
         n == Cardinality(DOMAIN q.enc_outputs)      \* src_len = enc_outputs.shape[0]
         B == DOMAIN q.dec_hidden
     IN \E energy \in EnergyMatrices(B, n) :
          dec' = [pc |-> "weighted",
                  attn_query |-> q,
                  attn_before_gru |-> ~("hidden" \in DOMAIN dec),
                  a |-> AttentionSoftmax(energy)] @@ dec
  /\ UNCHANGED <<xvars, tvars, bvars, cvars, fpc, src, trg_len, batch_size, src_len, pred_probas, attn, enc_outputs,
                 hidden, input_idx, t, enc_log, dec_log>>

\* lines 214-217: a.unsqueeze(1); the local enc_outputs is rebound to its
\* permutation; weighted = bmm(a, enc_outputs) kept as the formal sum
\* sum_s a[b][s] * enc_outputs[b][s]
DecWeighted ==
  /\ fpc = "decoder" /\ dec.pc = "weighted"
  /\ LET a3 == Unsqueeze1(dec.a)
         eo == Permute10(dec.enc_outputs)
     IN dec' = [pc |-> "cat",
                a |-> a3,
                enc_outputs |-> eo,
                weighted |-> [b \in DOMAIN a3 |->
                                [s \in DOMAIN a3[b][0] |-> <<a3[b][0][s], eo[b][s]>>]]] @@ dec
  /\ UNCHANGED <<xvars, tvars, bvars, cvars, fpc, src, trg_len, batch_size, src_len, pred_probas, attn, enc_outputs,
                 hidden, input_idx, t, enc_log, dec_log>>

\* line 220: rnn_input = torch.cat((y, weighted), dim=2)
DecCat ==
  /\ fpc = "decoder" /\ dec.pc = "cat"
  /\ dec' = [pc |-> "gru",
             rnn_input |-> [b \in DOMAIN dec.y |-> <<dec.y[b], dec.weighted[b]>>]] @@ dec
  /\ UNCHANGED <<xvars, tvars, bvars, cvars, fpc, src, trg_len, batch_size, src_len, pred_probas, attn, enc_outputs,
                 hidden, input_idx, t, enc_log, dec_log>>

\* line 223: output, hidden = self.gru(rnn_input, input_hidden)
DecGRU ==
  /\ fpc = "decoder" /\ dec.pc = "gru"
  /\ LET h == [b \in DOMAIN dec.rnn_input |-> <<"gru", dec.rnn_input[b], dec.input_hidden[b]>>]
     IN dec' = [pc |-> "linear", output |-> h, hidden |-> h] @@ dec
  /\ UNCHANGED <<xvars, tvars, bvars, cvars, fpc, src, trg_len, batch_size, src_len, pred_probas, attn, enc_outputs,
                 hidden, input_idx, t, enc_log, dec_log>>

\* lines 226-229: pred_proba = linear(output.squeeze(0)); return
DecLinear ==
  /\ fpc = "decoder" /\ dec.pc = "linear"
  /\ \E p \in [DOMAIN dec.output -> LogitRows] :
       dec' = [pc |-> "returned", pred_proba |-> p] @@ dec
  /\ fpc' = "store"
  /\ UNCHANGED <<xvars, tvars, bvars, cvars, src, trg_len, batch_size, src_len, pred_probas, attn, enc_outputs,
                 hidden, input_idx, t, enc_log, dec_log>>

(* ---------------------- Seq2Seq.forward, loop body --------------------- *)
\* a mutant of NextInputIdx: the decoder input stays <sos>
NextInputIdxSos(pred_proba_t) == [b \in DOMAIN pred_proba_t |-> SOS_IDX]

\* line 257: input_idx = pred_proba_t.argmax(-1)
NextInputIdx(pred_proba_t) == [b \in DOMAIN pred_proba_t |-> ArgMax(pred_proba_t[b])]

\* a mutant of NextHidden: the encoder context is fed at every step
NextHiddenKeep(old, returned) == old

\* line 255: the loop variable hidden is rebound to the decoder's hidden
NextHidden(old, returned) == returned

\* line 258: attn[:, :, t] = a.squeeze() (a 1-d value is broadcast over batch)
StoreAttn(at, step, sq) ==
  [b \in DOMAIN at |-> [s \in DOMAIN at[b] |-> [i \in DOMAIN at[b][s] |->
     IF i # step THEN at[b][s][i]
     ELSE IF sq.rank = 1 THEN sq.val[s] ELSE sq.val[b][s]]]]

\* lines 255-258: unpack the decoder's results, store the prediction, take
\* the argmax as next input, store the attention
ForwardStore ==
  /\ fpc = "store"
  /\ pred_probas' = [pred_probas EXCEPT ![t] = dec.pred_proba]
  /\ hidden' = NextHidden(hidden, dec.hidden)
  /\ input_idx' = NextInputIdx(dec.pred_proba)
  /\ attn' = StoreAttn(attn, t, Squeeze(dec.a))
  /\ dec_log' = Append(dec_log,
       [t |-> t, input_idx |-> dec.input_idx, input_hidden |-> dec.input_hidden,
        attn_query |-> dec.attn_query, attn_before_gru |-> dec.attn_before_gru,
        a |-> dec.a, hidden_out |-> dec.hidden, encoder_calls |-> Len(enc_log)])
  /\ t' = t + 1
  /\ dec' = NoDec
  /\ fpc' = "loop"
  /\ UNCHANGED <<xvars, tvars, bvars, cvars, src, trg_len, batch_size, src_len, enc_outputs, enc_log>>

\* line 260: return pred_probas, attn
ForwardReturn ==
  /\ fpc = "loop"
  /\ t >= trg_len
  /\ fpc' = "returned"
  /\ UNCHANGED <<xvars, tvars, bvars, cvars, src, trg_len, batch_size, src_len, pred_probas, attn, enc_outputs,
                 hidden, input_idx, t, dec, enc_log, dec_log>>

NextForward ==
  \/ ForwardAlloc \/ ForwardEncode \/ ForwardFirstInput
  \/ ForwardCallDecoder
  \/ DecEmbed \/ DecAttention \/ DecWeighted \/ DecCat \/ DecGRU \/ DecLinear
  \/ ForwardStore \/ ForwardReturn

vars == <<fvars, tvars, bvars, cvars, xvars>>

SpecForward == InitForward /\ [][NextForward]_vars

(* ===================== properties of Seq2Seq.forward ==================== *)
\* the decoder calls made so far, the running one included
DecoderStarted == Len(dec_log) + (IF dec.pc = "idle" THEN 0 ELSE 1)

FedInput(k) == IF k <= Len(dec_log) THEN dec_log[k].input_idx ELSE dec.input_idx

FedHidden(k) == IF k <= Len(dec_log) THEN dec_log[k].input_hidden ELSE dec.input_hidden

IsMaximalIn(i, row) == i \in DOMAIN row /\ \A j \in DOMAIN row : row[j] <= row[i]

\* C1: every token fed to the decoder is <sos> (index 2) at step t = 1 and,
\* at step t >= 2, a maximum of the prediction stored in pred_probas[t-1] for
\* the same batch element; decoder call number k is the call of step t = k.
C1_GreedyDecoding ==
  \A k \in 1..DecoderStarted :
    /\ k <= Len(dec_log) => dec_log[k].t = k
    /\ k > Len(dec_log) => t = k
    /\ DOMAIN FedInput(k) = Range(batch_size)
    /\ \A b \in Range(batch_size) :
         IF k = 1 THEN FedInput(k)[b] = 2
         ELSE IsMaximalIn(FedInput(k)[b], pred_probas[k - 1][b])

\* C1 witness: a finished call with two batch elements that were fed
\* different tokens at step t = 2
C1_Witness ==
  /\ fpc = "returned" /\ batch_size = 2 /\ Len(dec_log) = 2
  /\ dec_log[2].input_idx[0] # dec_log[2].input_idx[1]
  /\ dec_log[2].input_idx[0] # 2

\* C2: the encoder is applied once, before any decoder step; decoder step 1
\* receives the encoder's context, step t > 1 the hidden state returned by
\* step t - 1.
C2_EncoderOnceHiddenChain ==
  /\ Len(enc_log) <= 1
  /\ fpc = "returned" => Len(enc_log) = 1
  /\ \A i \in 1..Len(enc_log) : enc_log[i].dec_calls_before = 0
  /\ DecoderStarted > 0 => Len(enc_log) = 1
  /\ \A k \in 1..DecoderStarted :
       FedHidden(k) = IF k = 1 THEN enc_log[1].context ELSE dec_log[k - 1].hidden_out

\* C2 witness: a finished call with two decoder steps
C2_Witness ==
  /\ fpc = "returned" /\ Len(dec_log) = 2
  /\ dec_log[2].input_hidden = dec_log[1].hidden_out
  /\ dec_log[2].input_hidden # enc_log[1].context

AttentionDone(k) == k <= Len(dec_log) \/ "attn_query" \in DOMAIN dec

AttentionOf(k) ==
  IF k <= Len(dec_log)
  THEN [q |-> dec_log[k].attn_query, before_gru |-> dec_log[k].attn_before_gru]
  ELSE [q |-> dec.attn_query, before_gru |-> dec.attn_before_gru]

\* C3: at every decoding step the attention is computed from the hidden state
\* of the previous step (the encoder context at t = 1) and all encoder outputs,
\* with one weight per source position, before the GRU produced the new
\* hidden state; the encoder outputs never change.
C3_AttentionEveryStep ==
  /\ Len(enc_log) = 1 => enc_outputs = enc_log[1].outputs
  /\ \A k \in 1..DecoderStarted : AttentionDone(k) =>
       LET at == AttentionOf(k) IN
         /\ at.q.dec_hidden = IF k = 1 THEN enc_log[1].context ELSE dec_log[k - 1].hidden_out
         /\ at.q.enc_outputs = enc_log[1].outputs
         /\ DOMAIN at.q.enc_outputs = Range(src_len)
         /\ at.before_gru
  /\ \A k \in 1..Len(dec_log) : \A b \in Range(batch_size) :
       DOMAIN dec_log[k].a[b][0] = Range(src_len)
  /\ (fpc = "decoder" /\ dec.pc = "weighted") =>
       \A b \in Range(batch_size) : DOMAIN dec.a[b] = Range(src_len)

\* C3 witness: two finished steps whose attention weights differ
C3_Witness ==
  /\ Len(dec_log) = 2 /\ src_len = 2
  /\ dec_log[1].a # dec_log[2].a
  /\ dec_log[2].attn_query.dec_hidden = dec_log[1].hidden_out

FracAdd(x, y) == Frac(x[1] * y[2] + y[1] * x[2], x[2] * y[2])

RECURSIVE FracSum(_, _)
FracSum(f, S) ==
  IF S = {} THEN FZero
  ELSE LET x == CHOOSE y \in S : TRUE IN FracAdd(f[x], FracSum(f, S \ {x}))

IsDistribution(row) ==
  /\ \A s \in DOMAIN row : row[s][2] > 0 /\ 0 <= row[s][1] /\ row[s][1] <= row[s][2]
  /\ LET sum == FracSum(row, DOMAIN row) IN sum[1] = sum[2]

\* C4: the vector returned by Attention.forward has, for every batch element,
\* entries between 0 and 1 that sum to 1 over the source positions.
C4_AttentionIsDistribution ==
  /\ (fpc = "decoder" /\ dec.pc = "weighted") =>
       \A b \in Range(batch_size) : IsDistribution(dec.a[b])
  /\ \A k \in 1..Len(dec_log) : \A b \in Range(batch_size) :
       IsDistribution(dec_log[k].a[b][0])

\* C4 witness: attention just returned at step t = 2 for two batch elements,
\* one with non-uniform and one with uniform weights
C4_Witness ==
  /\ fpc = "decoder" /\ dec.pc = "weighted" /\ t = 2 /\ batch_size = 2
  /\ dec.a[0][0] # dec.a[0][1]
  /\ dec.a[1][0] = dec.a[1][1]

(* --------------------------- the vocabulary ---------------------------- *)
None == "None"

\* a mutant of Field: the field is created without init_token
FieldNoInit(init_token, eos_token) ==
  [unk_token |-> "<unk>", pad_token |-> "<pad>", init_token |-> None,
   eos_token |-> eos_token]

\* Field(tokenize=..., init_token=..., eos_token=..., lower=True); unk_token
\* and pad_token keep their defaults
Field(init_token, eos_token) ==
  [unk_token |-> "<unk>", pad_token |-> "<pad>", init_token |-> init_token,
   eos_token |-> eos_token]

TRG == Field("<sos>", "<eos>")

\* the special tokens of a field in vocabulary order ('unknown word',
\* 'padding', 'start of sentence', 'end of sequence'), those that are set
Specials(field) ==
  SelectSeq(<<field.unk_token, field.pad_token, field.init_token, field.eos_token>>,
            LAMBDA tok : tok # None)

\* TRG.build_vocab(train_data, min_freq=2): the specials, then the words of
\* the data ranked by frequency, up to the size of the decoder's output
BuildVocab(field) ==
  LET sp == Specials(field)
  IN [itos |-> sp \o [i \in 1..(VocabSize - Len(sp)) |-> <<"word", i>>]]

\* vocab.itos[i], 0-based
Itos(vocab, i) == vocab.itos[i + 1]

\* C13: the target vocabulary starts with <unk>, <pad>, <sos>, <eos>; the
\* one-hot row written to pred_probas[0] has its maximum at the index of
\* <sos> for every batch element, from allocation to return, and the first
\* decoder call is fed the index of <sos>.
C13_SosIndex ==
  LET vocab == BuildVocab(TRG) IN
    /\ SubSeq(vocab.itos, 1, 4) = <<"<unk>", "<pad>", "<sos>", "<eos>">>
    /\ Itos(vocab, 2) = "<sos>"
    /\ fpc # "start" =>
         \A b \in Range(batch_size) : Itos(vocab, ArgMax(pred_probas[0][b])) = "<sos>"
    /\ DecoderStarted >= 1 =>
         \A b \in Range(batch_size) : Itos(vocab, FedInput(1)[b]) = "<sos>"

\* C13 witness: the call has returned after two decoder steps on two
\* sentences, the later rows of pred_probas having their maximum elsewhere
C13_Witness ==
  /\ fpc = "returned" /\ batch_size = 2 /\ Len(dec_log) = 2
  /\ dec_log[1].input_idx = [b \in Range(2) |-> 2]
  /\ ArgMax(pred_probas[0][1]) = 2
  /\ ArgMax(pred_probas[1][1]) # 2

(* ====================== the training functions ========================= *)
\* training_seq2seq (LSTM lab), training_validation_seq2seq (attention lab)
\* and training_validation_bleu (BLEU lab) share one loop
TrainFns == {"training_seq2seq", "training_validation_seq2seq", "training_validation_bleu"}

FileNames == {"lstm_model.pt", "model_attention.pt"}

\* values loss.item() may take
LossVals == {1, 2}

Absent == [exists |-> FALSE, state_dict |-> [origin |-> "none", version |-> 0]]

\* a checkpoint left by an earlier run
Earlier == [exists |-> TRUE, state_dict |-> [origin |-> "earlier", version |-> 0]]

\* model.state_dict(): the current parameters
StateDict(p) == [origin |-> "this_run", version |-> p]

\* torch.save(state_dict, name)
Saved(sd) == [exists |-> TRUE, state_dict |-> sd]

InitTrain ==
  /\ tpc = "start"
  /\ fn \in TrainFns
  /\ model_name = IF fn = "training_seq2seq" THEN "none" ELSE "model_attention"
  /\ num_epochs \in 0..MaxEpochs
  /\ \E n \in 1..MaxBatches : train_dataloader = 1..n
  /\ epoch = 0 /\ pending = {} /\ batch = 0
  /\ params = 0 /\ grads = "none" /\ pred = <<>> /\ loss = 0
  /\ loss_current_epoch = 0 /\ loss_total = <<>> /\ val_total = <<>>
  /\ \E pre \in {Absent, Earlier} : files = [f \in FileNames |-> pre]
  /\ load_result = "none"
  /\ ops = <<>> /\ fetched = <<>> /\ epoch_hist = <<>> /\ loss_items = <<>>
  /\ IdleForward /\ IdleBleu /\ IdleCut /\ IdleExtra

\* a mutant of AfterOp: the gradients are clipped after the optimizer step
AfterOpClipLate(op) ==
  CASE op = "zero_grad" -> "forward"
    [] op = "forward" -> "loss"
    [] op = "loss" -> "backward"
    [] op = "backward" -> "step"
    [] op = "step" -> "clip"
    [] op = "clip" -> "record"

\* the statement that follows each operation of the loop body (lines 650-674)
AfterOp(op) ==
  CASE op = "zero_grad" -> "forward"
    [] op = "forward" -> "loss"
    [] op = "loss" -> "backward"
    [] op = "backward" -> "clip"
    [] op = "clip" -> "step"
    [] op = "step" -> "record"

\* a mutant of EpochEndSaves: no function saves at the end of an epoch
EpochEndSavesNever(f) == FALSE

\* whether the epoch loop of function f ends with torch.save: line 682 of
\* training_seq2seq; in the validation variants the step is left 'TO DO'
EpochEndSaves(f) == f = "training_seq2seq"

\* lines 629-636: model.train(), model.to(device), the result lists
TrainBegin ==
  /\ tpc = "start"
  /\ loss_total' = <<>> /\ val_total' = <<>>
  /\ tpc' = "epoch_loop"
  /\ UNCHANGED <<xvars, fvars, bvars, cvars, loss_items, fn, model_name, num_epochs, train_dataloader, epoch,
                 pending, batch, params, grads, pred, loss, loss_current_epoch, files,
                 load_result, ops, fetched, epoch_hist>>

\* lines 638-640: for epoch in range(num_epochs): loss_current_epoch = 0
TrainEpochStart ==
  /\ tpc = "epoch_loop" /\ epoch < num_epochs
  /\ loss_current_epoch' = 0
  /\ pending' = train_dataloader
  /\ ops' = <<>> /\ fetched' = <<>>
  /\ tpc' = "batch_loop"
  /\ loss_items' = <<>>
  /\ UNCHANGED <<xvars, fvars, bvars, cvars, fn, model_name, num_epochs, train_dataloader, epoch,
                 batch, params, grads, pred, loss, loss_total, val_total, files,
                 load_result, epoch_hist>>

\* lines 643-647: the dataloader yields the next batch (in shuffled order)
TrainFetch ==
  /\ tpc = "batch_loop" /\ pending # {}
  /\ \E b \in pending :
       /\ batch' = b
       /\ pending' = pending \ {b}
       /\ fetched' = Append(fetched, b)
  /\ tpc' = "zero_grad"
  /\ UNCHANGED <<xvars, fvars, bvars, cvars, loss_items, fn, model_name, num_epochs, train_dataloader, epoch,
                 params, grads, pred, loss, loss_current_epoch, loss_total, val_total,
                 files, load_result, ops, epoch_hist>>

\* line 650: optimizer.zero_grad()
TrainZeroGrad ==
  /\ tpc = "zero_grad"
  /\ grads' = "zero"
  /\ ops' = Append(ops, <<batch, "zero_grad">>)
  /\ tpc' = AfterOp("zero_grad")
  /\ UNCHANGED <<xvars, fvars, bvars, cvars, loss_items, fn, model_name, num_epochs, train_dataloader, epoch,
                 pending, batch, params, pred, loss, loss_current_epoch, loss_total,
                 val_total, files, load_result, fetched, epoch_hist>>

\* line 653: pred_probas = model(src, trg_len)
TrainForward ==
  /\ tpc = "forward"
  /\ pred' = <<"pred_probas", batch, params>>
  /\ ops' = Append(ops, <<batch, "forward">>)
  /\ tpc' = AfterOp("forward")
  /\ UNCHANGED <<xvars, fvars, bvars, cvars, loss_items, fn, model_name, num_epochs, train_dataloader, epoch,
                 pending, batch, params, grads, loss, loss_current_epoch, loss_total,
                 val_total, files, load_result, fetched, epoch_hist>>

\* lines 655-666: drop position 0, flatten, loss = loss_fn(pred_probas, trg)
TrainLoss ==
  /\ tpc = "loss"
  /\ loss' \in LossVals
  /\ ops' = Append(ops, <<batch, "loss">>)
  /\ tpc' = AfterOp("loss")
  /\ UNCHANGED <<xvars, fvars, bvars, cvars, loss_items, fn, model_name, num_epochs, train_dataloader, epoch,
                 pending, batch, params, grads, pred, loss_current_epoch, loss_total,
                 val_total, files, load_result, fetched, epoch_hist>>

\* line 667: loss.backward()
TrainBackward ==
  /\ tpc = "backward"
  /\ grads' = "computed"
  /\ ops' = Append(ops, <<batch, "backward">>)
  /\ tpc' = AfterOp("backward")
  /\ UNCHANGED <<xvars, fvars, bvars, cvars, loss_items, fn, model_name, num_epochs, train_dataloader, epoch,
                 pending, batch, params, pred, loss, loss_current_epoch, loss_total,
                 val_total, files, load_result, fetched, epoch_hist>>

\* line 670: torch.nn.utils.clip_grad_norm_(model.parameters(), 1.0)
TrainClip ==
  /\ tpc = "clip"
  /\ grads' = "clipped"
  /\ ops' = Append(ops, <<batch, "clip">>)
  /\ tpc' = AfterOp("clip")
  /\ UNCHANGED <<xvars, fvars, bvars, cvars, loss_items, fn, model_name, num_epochs, train_dataloader, epoch,
                 pending, batch, params, pred, loss, loss_current_epoch, loss_total,
                 val_total, files, load_result, fetched, epoch_hist>>

\* line 671: optimizer.step()
TrainStep ==
  /\ tpc = "step"
  /\ params' = params + 1
  /\ ops' = Append(ops, <<batch, "step">>)
  /\ tpc' = AfterOp("step")
  /\ UNCHANGED <<xvars, fvars, bvars, cvars, loss_items, fn, model_name, num_epochs, train_dataloader, epoch,
                 pending, batch, grads, pred, loss, loss_current_epoch, loss_total,
                 val_total, files, load_result, fetched, epoch_hist>>

\* line 674: loss_current_epoch += loss.item()
TrainRecord ==
  /\ tpc = "record"
  /\ loss_current_epoch' = loss_current_epoch + loss
  /\ tpc' = "batch_loop"
  /\ loss_items' = Append(loss_items, loss)
  /\ UNCHANGED <<xvars, fvars, bvars, cvars, fn, model_name, num_epochs, train_dataloader, epoch,
                 pending, batch, params, grads, pred, loss, loss_total, val_total, files,
                 load_result, ops, fetched, epoch_hist>>

CountOps(b, op) == Cardinality({i \in 1..Len(ops) : ops[i] = <<b, op>>})

\* lines 676-679: the dataloader is exhausted; loss_total.append(loss_current_epoch)
TrainEpochEnd ==
  /\ tpc = "batch_loop" /\ pending = {}
  /\ loss_total' = Append(loss_total, loss_current_epoch)
  /\ epoch_hist' = Append(epoch_hist,
       [params |-> StateDict(params),
        steps |-> [b \in train_dataloader |-> CountOps(b, "step")],
        losses |-> loss_items])
  /\ tpc' = IF EpochEndSaves(fn) THEN "save" ELSE "validate"
  /\ UNCHANGED <<xvars, fvars, bvars, cvars, loss_items, fn, model_name, num_epochs, train_dataloader, epoch,
                 pending, batch, params, grads, pred, loss, loss_current_epoch, val_total,
                 files, load_result, ops, fetched>>

\* line 682: torch.save(model.state_dict(), 'lstm_model.pt')
TrainSave ==
  /\ tpc = "save"
  /\ files' = [files EXCEPT !["lstm_model.pt"] = Saved(StateDict(params))]
  /\ epoch' = epoch + 1
  /\ tpc' = "epoch_loop"
  /\ UNCHANGED <<xvars, fvars, bvars, cvars, loss_items, fn, model_name, num_epochs, train_dataloader,
                 pending, batch, params, grads, pred, loss, loss_current_epoch, loss_total,
                 val_total, load_result, ops, fetched, epoch_hist>>

\* a file opened for writing whose content was not written
Truncated == [exists |-> TRUE, state_dict |-> [origin |-> "truncated", version |-> 0]]

\* the statements of the batch loop that call the framework
RaisingStatements == {"zero_grad", "forward", "loss", "backward", "clip", "step", "record"}

\* no handler in the function: an error raised by the dataloader or by a
\* statement of the batch loop leaves the function
TrainRaise ==
  /\ \/ tpc \in RaisingStatements
     \/ tpc = "batch_loop" /\ pending # {}
  /\ tpc' = "raised"
  /\ UNCHANGED <<xvars, fvars, bvars, cvars, loss_items, fn, model_name, num_epochs, train_dataloader, epoch,
                 pending, batch, params, grads, pred, loss, loss_current_epoch, loss_total,
                 val_total, files, load_result, ops, fetched, epoch_hist>>

\* line 682 raises: torch.save(obj, path) opens path for writing, which
\* empties it, then writes; the error comes before the file is opened or
\* before the content is complete
TrainSaveRaise ==
  /\ tpc = "save"
  /\ \/ files' = files
     \/ files' = [files EXCEPT !["lstm_model.pt"] = Truncated]
  /\ tpc' = "raised_in_save"
  /\ UNCHANGED <<xvars, fvars, bvars, cvars, loss_items, fn, model_name, num_epochs, train_dataloader, epoch,
                 pending, batch, params, grads, pred, loss, loss_current_epoch, loss_total,
                 val_total, load_result, ops, fetched, epoch_hist>>

\* the validation step of training_validation_seq2seq / training_validation_bleu
\* is a 'TO DO' comment: nothing is evaluated, appended or saved
TrainValidate ==
  /\ tpc = "validate"
  /\ epoch' = epoch + 1
  /\ tpc' = "epoch_loop"
  /\ UNCHANGED <<xvars, fvars, bvars, cvars, loss_items, fn, model_name, num_epochs, train_dataloader,
                 pending, batch, params, grads, pred, loss, loss_current_epoch, loss_total,
                 val_total, files, load_result, ops, fetched, epoch_hist>>

\* line 684: return loss_total (and the validation list)
TrainReturn ==
  /\ tpc = "epoch_loop" /\ epoch >= num_epochs
  /\ tpc' = "returned"
  /\ UNCHANGED <<xvars, fvars, bvars, cvars, loss_items, fn, model_name, num_epochs, train_dataloader, epoch,
                 pending, batch, params, grads, pred, loss, loss_current_epoch, loss_total,
                 val_total, files, load_result, ops, fetched, epoch_hist>>

\* the cell after training in the attention lab:
\* model.load_state_dict(torch.load('model_attention.pt'))
LoadCheckpoint ==
  /\ tpc = "returned" /\ fn = "training_validation_seq2seq"
  /\ load_result' = IF files["model_attention.pt"].exists THEN "loaded"
                    ELSE "FileNotFoundError"
  /\ tpc' = "after_load"
  /\ UNCHANGED <<xvars, fvars, bvars, cvars, loss_items, fn, model_name, num_epochs, train_dataloader, epoch,
                 pending, batch, params, grads, pred, loss, loss_current_epoch, loss_total,
                 val_total, files, ops, fetched, epoch_hist>>

NextTrain ==
  \/ TrainBegin \/ TrainEpochStart \/ TrainFetch
  \/ TrainZeroGrad \/ TrainForward \/ TrainLoss \/ TrainBackward \/ TrainClip \/ TrainStep
  \/ TrainRecord \/ TrainEpochEnd \/ TrainSave \/ TrainValidate \/ TrainReturn
  \/ LoadCheckpoint
  \/ TrainRaise \/ TrainSaveRaise

SpecTrain == InitTrain /\ [][NextTrain]_vars

(* =================== properties of the training loops ================== *)
InBatchLoop ==
  tpc \in {"batch_loop", "zero_grad", "forward", "loss", "backward", "clip", "step", "record"}

\* C5: in every batch the operations run in the order zero_grad, forward,
\* loss, backward, clip, step; a batch is fetched only after the step of the
\* previous one; every batch is processed once per epoch; an epoch starts
\* only after all batches of the epochs before it were processed.
C5_TrainingLoopOrder ==
  LET order == <<"zero_grad", "forward", "loss", "backward", "clip", "step">>
      n == Len(order)
  IN /\ \A i \in 1..Len(ops) :
          /\ ((i - 1) \div n) + 1 <= Len(fetched)
          /\ ops[i] = <<fetched[((i - 1) \div n) + 1], order[((i - 1) % n) + 1]>>
     /\ Len(fetched) >= 1 => Len(ops) >= n * (Len(fetched) - 1)
     /\ \A i, j \in 1..Len(fetched) : i # j => fetched[i] # fetched[j]
     /\ \A e \in 1..Len(epoch_hist) : epoch_hist[e].steps = [b \in train_dataloader |-> 1]
     /\ InBatchLoop => Len(epoch_hist) = epoch
     /\ tpc \in {"returned", "after_load"} => Len(epoch_hist) = num_epochs

\* C5 witness: a run of two epochs over two batches has returned, the last
\* epoch having processed the batches in the order 2, 1
C5_Witness ==
  /\ tpc = "returned" /\ num_epochs = 2 /\ train_dataloader = {1, 2}
  /\ fetched = <<2, 1>> /\ Len(ops) = 12 /\ Len(epoch_hist) = 2

\* C6: when training_validation_seq2seq returns after at least one epoch, it
\* has recorded one validation loss per epoch and model_name.pt holds the
\* parameters of an epoch with the lowest validation loss; the load of
\* 'model_attention.pt' that follows succeeds.
C6_BestValidationLossSaved ==
  (fn = "training_validation_seq2seq" /\ num_epochs >= 1) =>
    /\ tpc \in {"returned", "after_load"} =>
         /\ Len(val_total) = num_epochs
         /\ \E k \in 1..num_epochs :
              /\ \A j \in 1..num_epochs : val_total[k] <= val_total[j]
              /\ files["model_attention.pt"] = Saved(epoch_hist[k].params)
    /\ tpc = "after_load" => load_result = "loaded"

\* C7: when training_validation_bleu returns after at least one epoch,
\* bleu_val_total holds one BLEU value per epoch and the saved model is the
\* one of an epoch with the highest validation BLEU.
C7_BestValidationBleuSaved ==
  (fn = "training_validation_bleu" /\ num_epochs >= 1 /\ tpc = "returned") =>
    /\ Len(val_total) = num_epochs
    /\ \E k \in 1..num_epochs :
         /\ \A j \in 1..num_epochs : val_total[k] >= val_total[j]
         /\ files["model_attention.pt"] = Saved(epoch_hist[k].params)

\* C8: in training_seq2seq, once the save of epoch k has run, 'lstm_model.pt'
\* holds the parameters the model had at the end of epoch k, for every k in
\* 1..num_epochs; on return it holds the last epoch's parameters.
C8_CheckpointEveryEpoch ==
  fn = "training_seq2seq" =>
    LET k == Len(epoch_hist) IN
      /\ (k >= 1 /\ tpc \notin {"save", "raised_in_save"}) =>
           files["lstm_model.pt"] = Saved(epoch_hist[k].params)
      /\ tpc = "returned" =>
           /\ k = num_epochs
           /\ k >= 1 => files["lstm_model.pt"] = Saved(StateDict(params))

\* C8 witness: the second epoch of training_seq2seq is under way, the file
\* that held an earlier run's checkpoint now holds the parameters of epoch 1
C8_Witness ==
  /\ fn = "training_seq2seq" /\ tpc = "step" /\ epoch = 1 /\ Len(epoch_hist) = 1
  /\ files["lstm_model.pt"] = Saved(epoch_hist[1].params)
  /\ files["model_attention.pt"] = Earlier
  /\ StateDict(params) # epoch_hist[1].params

RECURSIVE SeqSum(_)
SeqSum(q) == IF q = <<>> THEN 0 ELSE Head(q) + SeqSum(Tail(q))

\* C12: the value appended to loss_total for an epoch is the average of the
\* losses of the batches of that epoch: times the number of batches it is
\* their sum.
C12_AverageLossPerEpoch ==
  /\ Len(loss_total) = Len(epoch_hist)
  /\ \A e \in 1..Len(epoch_hist) :
       loss_total[e] * Len(epoch_hist[e].losses) = SeqSum(epoch_hist[e].losses)

\* C18: when an error leaves training_seq2seq during epoch k, for k >= 2
\* 'lstm_model.pt' holds the parameters of the end of epoch k - 1, and for
\* k = 1 this run has written no checkpoint.
C18_InterruptionKeepsLastEpoch ==
  (fn = "training_seq2seq" /\ tpc \in {"raised", "raised_in_save"}) =>
    LET k == epoch + 1 IN
      IF k >= 2 THEN files["lstm_model.pt"] = Saved(epoch_hist[k - 1].params)
      ELSE files["lstm_model.pt"].state_dict.origin # "this_run"

(* ============================ evaluate_bleu ============================ *)
\* target sentences as vocabulary indices (0 <unk>, 1 <pad>, 2 <sos>, 3 <eos>,
\* then words), padded to the length of the batch
ExampleSentences ==
  { [i \in Range(4) |-> <<2, 4, 3, 1>>[i + 1]],
    [i \in Range(4) |-> <<2, 4, 5, 3>>[i + 1]] }

\* a batch: trg is [trg_len][batch]
ExampleBatches ==
  UNION { { [trg |-> [i \in Range(4) |-> [b \in Range(B) |-> cols[b][i]]]] :
              cols \in [Range(B) -> ExampleSentences] } : B \in BatchSizes }

InitBleu ==
  /\ epc = "start"
  /\ eval_dataloader \in UNION { [1..n -> ExampleBatches] : n \in 1..MaxBatches }
  /\ eval_pos = 0 /\ ebatch = <<>> /\ eval_probas = <<>> /\ trg_pred = <<>>
  /\ trg_pred_all = <<>> /\ trg_all = <<>> /\ bleu = <<>>
  /\ IdleForward /\ IdleTrain /\ IdleCut /\ IdleExtra

\* lines 395-400: model.eval(); trg_pred_all = []; trg_all = []
EvalBegin ==
  /\ epc = "start"
  /\ trg_pred_all' = <<>> /\ trg_all' = <<>>
  /\ epc' = "batch_loop"
  /\ UNCHANGED <<xvars, fvars, tvars, cvars, eval_dataloader, eval_pos, ebatch, eval_probas,
                 trg_pred, bleu>>

\* lines 402-406: for batch in eval_dataloader; src, trg, trg_len
EvalFetch ==
  /\ epc = "batch_loop" /\ eval_pos < Len(eval_dataloader)
  /\ eval_pos' = eval_pos + 1
  /\ ebatch' = eval_dataloader[eval_pos + 1]
  /\ epc' = "forward"
  /\ UNCHANGED <<xvars, fvars, tvars, cvars, eval_dataloader, eval_probas, trg_pred,
                 trg_pred_all, trg_all, bleu>>

\* line 409: pred_probas, _ = model(src, trg_len): position 0 is the one-hot
\* <sos>, the other rows come from the decoder
EvalForward ==
  /\ epc = "forward"
  /\ LET T == DOMAIN ebatch.trg
         B == DOMAIN ebatch.trg[0]
     IN \E p \in [T \ {0} -> [B -> LogitRows]] :
          eval_probas' = [i \in T |->
             IF i = 0 THEN [b \in B |-> [v \in Range(VocabSize) |-> IF v = SOS_IDX THEN 1 ELSE 0]]
             ELSE p[i]]
  /\ epc' = "argmax"
  /\ UNCHANGED <<xvars, fvars, tvars, cvars, eval_dataloader, eval_pos, ebatch, trg_pred,
                 trg_pred_all, trg_all, bleu>>

\* line 412: trg_pred = torch.argmax(pred_probas, -1); the step that appends
\* the sentences of the batch to trg_pred_all and trg_all is a 'TO DO' comment
EvalArgmax ==
  /\ epc = "argmax"
  /\ trg_pred' = [i \in DOMAIN eval_probas |-> [b \in DOMAIN eval_probas[i] |->
                    ArgMax(eval_probas[i][b])]]
  /\ epc' = "batch_loop"
  /\ UNCHANGED <<xvars, fvars, tvars, cvars, eval_dataloader, eval_pos, ebatch, eval_probas,
                 trg_pred_all, trg_all, bleu>>

\* line 418: bleu = bleu_score(trg_pred_all, trg_all)
EvalBleuScore ==
  /\ epc = "batch_loop" /\ eval_pos >= Len(eval_dataloader)
  /\ bleu' = [candidate_corpus |-> trg_pred_all, references_corpus |-> trg_all]
  /\ epc' = "scored"
  /\ UNCHANGED <<xvars, fvars, tvars, cvars, eval_dataloader, eval_pos, ebatch, eval_probas,
                 trg_pred, trg_pred_all, trg_all>>

\* line 420: return bleu
EvalReturn ==
  /\ epc = "scored"
  /\ epc' = "returned"
  /\ UNCHANGED <<xvars, fvars, tvars, cvars, eval_dataloader, eval_pos, ebatch, eval_probas,
                 trg_pred, trg_pred_all, trg_all, bleu>>

NextBleu ==
  \/ EvalBegin \/ EvalFetch \/ EvalForward \/ EvalArgmax \/ EvalBleuScore \/ EvalReturn

SpecBleu == InitBleu /\ [][NextBleu]_vars

RECURSIVE SentenceCount(_)
\* number of sentences in the first n batches of the dataloader
SentenceCount(n) ==
  IF n = 0 THEN 0
  ELSE SentenceCount(n - 1) + Cardinality(DOMAIN eval_dataloader[n].trg[0])

\* C9: when bleu_score is called, trg_pred_all holds one predicted sentence
\* per sentence of the dataloader, trg_all has the same length and each of
\* its entries is a one-element list of references.
C9_BleuOverWholeDataloader ==
  epc \in {"scored", "returned"} =>
    /\ Len(bleu.candidate_corpus) = SentenceCount(Len(eval_dataloader))
    /\ Len(bleu.references_corpus) = Len(bleu.candidate_corpus)
    /\ \A i \in 1..Len(bleu.references_corpus) : Len(bleu.references_corpus[i]) = 1

(* ============================== cut_tokens ============================= *)
Tokens == {"<sos>", "<eos>", "<pad>", "Hello", "world"}

\* the example of the notebook's text
DocExample == <<"<sos>", "Hello", "world", "!", "<eos>", "<pad>", "<pad>", "<pad>">>

BoundedSentences == UNION { [1..n -> Tokens] : n \in 0..MaxSentLen }

\* names bound by the notebook's cells when cut_tokens can be called
NotebookGlobals ==
  {"SRC", "TRG", "train_data", "valid_data", "test_data", "example_batch",
   "model", "src", "trg", "trg_len", "pred_probas", "trg_pred", "ind_sent",
   "trg_pred_ex", "trg_ex", "translation_pred", "translation", "cut_tokens"}

\* def cut_tokens(sentence): return sentence_cut
\* the body binds nothing: sentence_cut is neither a local nor a global name
cut_tokens(sent) ==
  IF "sentence_cut" \in {"sentence"} \cup NotebookGlobals
  THEN [raised |-> "none", value |-> sent]
  ELSE [raised |-> "NameError", value |-> <<>>]

InitCut ==
  /\ cpc = "start"
  /\ sentence \in BoundedSentences \cup {DocExample}
  /\ cut_result = <<>>
  /\ IdleForward /\ IdleTrain /\ IdleBleu /\ IdleExtra

CallCutTokens ==
  /\ cpc = "start"
  /\ cut_result' = cut_tokens(sentence)
  /\ cpc' = "called"
  /\ UNCHANGED <<xvars, fvars, tvars, bvars, sentence>>

NextCut == CallCutTokens

SpecCut == InitCut /\ [][NextCut]_vars

RECURSIVE UpToEos(_)
UpToEos(seq) ==
  IF seq = <<>> \/ Head(seq) = "<eos>" THEN <<>>
  ELSE <<Head(seq)>> \o UpToEos(Tail(seq))

\* C10: cut_tokens returns the sentence without its leading <sos> and
\* without the first <eos> and everything after it, order kept.
C10_CutTokens ==
  cpc = "called" =>
    /\ cut_result.raised = "none"
    /\ cut_result.value =
         UpToEos(IF sentence # <<>> /\ Head(sentence) = "<sos>" THEN Tail(sentence) ELSE sentence)

(* ========================= the loss of one batch ======================= *)
\* the functions that hold these lines: training_seq2seq and evaluate_seq2seq
\* (LSTM lab), training_validation_seq2seq, training_validation_bleu
LossFns ==
  {"training_seq2seq", "evaluate_seq2seq", "training_validation_seq2seq",
   "training_validation_bleu"}

\* target tokens after <sos>: <eos> or a word
TrgTokens == {3, 4}

\* a target batch holds <sos> and <eos> at least
LossTrgLens == 2..MaxTrgLen

\* x[1:] along the first dimension
DropFirst(x) == [i \in Range(Cardinality(DOMAIN x) - 1) |-> x[i + 1]]

\* x.view(-1, ...) of a contiguous [n][batch] tensor: row-major, entry k is
\* x[k div batch][k mod batch]
ViewFlat(x) ==
  IF DOMAIN x = {} THEN <<>>
  ELSE LET B == Cardinality(DOMAIN x[0])
       IN [k \in Range(Cardinality(DOMAIN x) * B) |-> x[k \div B][k % B]]

\* a mutant of LossTrgArg: the target is flattened batch-first
LossTrgArgBatchFirst(trg) ==
  LET x == DropFirst(trg)
      n == Cardinality(DOMAIN x)
      B == Cardinality(DOMAIN x[0])
  IN [k \in Range(n * B) |-> x[k % n][k \div n]]

\* trg = trg[1:].view(-1)
LossTrgArg(trg) == ViewFlat(DropFirst(trg))

\* the model's result and the batch, as the loop body holds them before the loss
InitLoss ==
  /\ lpc = "start"
  /\ lfn \in LossFns
  /\ \E T \in LossTrgLens, B \in BatchSizes :
       /\ l_pred = [i \in Range(T) |-> [b \in Range(B) |-> <<"p", i, b>>]]
       /\ \E rest \in [(1..(T - 1)) \X Range(B) -> TrgTokens] :
            l_trg = [i \in Range(T) |-> [b \in Range(B) |->
                       IF i = 0 THEN SOS_IDX ELSE rest[<<i, b>>]]]
  /\ l_batch = [trg |-> l_trg]
  /\ l_args = <<>>
  /\ IdleForward /\ IdleTrain /\ IdleBleu /\ IdleCut /\ IdleData /\ IdleViz /\ IdleParams /\ IdleSave /\ IdleShape

\* pred_probas = pred_probas[1:]
LossSlicePred ==
  /\ lpc = "start"
  /\ l_pred' = DropFirst(l_pred)
  /\ lpc' = "view_pred"
  /\ UNCHANGED <<notl, lfn, l_trg, l_batch, l_args>>

\* pred_probas = pred_probas.view(-1, output_dim)
LossViewPred ==
  /\ lpc = "view_pred"
  /\ l_pred' = ViewFlat(l_pred)
  /\ lpc' = "view_trg"
  /\ UNCHANGED <<notl, lfn, l_trg, l_batch, l_args>>

\* trg = trg[1:].view(-1)
LossViewTrg ==
  /\ lpc = "view_trg"
  /\ l_trg' = LossTrgArg(l_trg)
  /\ lpc' = "loss"
  /\ UNCHANGED <<notl, lfn, l_pred, l_batch, l_args>>

\* loss = loss_fn(pred_probas, trg)
LossCall ==
  /\ lpc = "loss"
  /\ l_args' = [input |-> l_pred, target |-> l_trg]
  /\ lpc' = "called"
  /\ UNCHANGED <<notl, lfn, l_pred, l_trg, l_batch>>

NextLoss == LossSlicePred \/ LossViewPred \/ LossViewTrg \/ LossCall

SpecLoss == InitLoss /\ [][NextLoss]_vars

TRAIN_SUBSET == 1000

EVAL_SUBSET == 100

\* the notebooks that hold the cell: LSTM lab, BLEU lab, attention lab
DataNotebooks == {"lstm_lab", "bleu_lab", "attention_lab"}

\* sizes a split of the loaded dataset may have around a subset size
SplitSizes(n) == (n - MaxExtra)..(n + MaxExtra)

\* the examples of one split as Multi30k.splits returns them
Examples(name, n) == [i \in 1..n |-> <<name, i - 1>>]

\* examples[:n]
Prefix(examples, n) == SubSeq(examples, 1, IF n < Len(examples) THEN n ELSE Len(examples))

\* train_data, valid_data, test_data = Multi30k.splits(...)
InitData ==
  /\ dpc = "loaded"
  /\ notebook \in DataNotebooks
  /\ \E nt \in SplitSizes(TRAIN_SUBSET), nv \in SplitSizes(EVAL_SUBSET),
        ne \in SplitSizes(EVAL_SUBSET) :
       /\ train_data = Examples("train", nt)
       /\ valid_data = Examples("valid", nv)
       /\ test_data = Examples("test", ne)
  /\ splits = [train |-> train_data, valid |-> valid_data, test |-> test_data]
  /\ IdleForward /\ IdleTrain /\ IdleBleu /\ IdleCut /\ IdleLoss /\ IdleViz /\ IdleParams /\ IdleSave /\ IdleShape

\* train_data.examples = train_data.examples[:1000]
SubsetTrain ==
  /\ dpc = "loaded"
  /\ train_data' = Prefix(train_data, TRAIN_SUBSET)
  /\ dpc' = "train_cut"
  /\ UNCHANGED <<notd, notebook, valid_data, test_data, splits>>

\* valid_data.examples = valid_data.examples[:100]
SubsetValid ==
  /\ dpc = "train_cut"
  /\ valid_data' = Prefix(valid_data, EVAL_SUBSET)
  /\ dpc' = "valid_cut"
  /\ UNCHANGED <<notd, notebook, train_data, test_data, splits>>

\* test_data.examples = train_data.examples[:100]
SubsetTest ==
  /\ dpc = "valid_cut"
  /\ test_data' = Prefix(train_data, EVAL_SUBSET)
  /\ dpc' = "done"
  /\ UNCHANGED <<notd, notebook, train_data, valid_data, splits>>

NextData == SubsetTrain \/ SubsetValid \/ SubsetTest

SpecData == InitData /\ [][NextData]_vars

ElemsOf(q) == {q[i] : i \in 1..Len(q)}

\* C14: after the subsetting step each split holds a prefix of its own
\* original split (1000 training, 100 validation, 100 test examples) and no
\* test example is a training example.
C14_SubsetOfEachSplit ==
  dpc = "done" =>
    /\ train_data = Prefix(splits.train, 1000)
    /\ valid_data = Prefix(splits.valid, 100)
    /\ test_data = Prefix(splits.test, 100)
    /\ ElemsOf(test_data) \cap ElemsOf(train_data) = {}

(* ========================= vizualize_attention ========================= *)
\* indx_sentence_print = 1
INDX_SENTENCE_PRINT == 1

\* tokens the model may predict after <sos>
VizTokens == {"<eos>", "<pad>", "word"}

\* a predicted sentence of n tokens as itos_list_en returns it: <sos> first
\* (the one-hot row 0), then whatever the argmax gave
PredictedSentences(n) ==
  { <<"<sos>">> \o rest : rest \in [1..(n - 1) -> VizTokens] }

\* a source sentence of n tokens as itos_list_de returns it: <sos>, words,
\* <eos>, then padding up to the length of the batch
SourceSentences(n) ==
  { [i \in 1..n |-> IF i = 1 THEN "<sos>"
                    ELSE IF i < k THEN "word"
                    ELSE IF i = k THEN "<eos>" ELSE "<pad>"] : k \in 2..n }

\* lengths of the source batch
VizSrcLens == 2..(MaxSentLen + 1)

\* the second output of Seq2Seq.forward, [batch][src_len][trg_len]: entry
\* [b][s][i] is the weight put on source position s at decoding step i
ForwardAttn(B, S, T) ==
  [b \in Range(B) |-> [s \in Range(S) |-> [i \in Range(T) |-> <<"weight", b, s, i>>]]]

\* numpy squeeze(1) of a 2-d array: dimension 1 is dropped when its size is 1
SqueezeDim1(m) ==
  IF \A i \in DOMAIN m : Cardinality(DOMAIN m[i]) = 1
  THEN [i \in DOMAIN m |-> m[i][0]]
  ELSE m

RECURSIVE TicksUpTo(_)
\* for t in tokens: ticks.append(t); if t == '<eos>': break
TicksUpTo(tokens) ==
  IF tokens = <<>> THEN <<>>
  ELSE IF Head(tokens) = "<eos>" THEN <<Head(tokens)>>
  ELSE <<Head(tokens)>> \o TicksUpTo(Tail(tokens))

Min(a, b) == IF a < b THEN a ELSE b

\* m[1:r, :c] of a 2-d array (slices are clipped to the shape)
SliceRowsCols(m, r, c) ==
  LET d0 == Cardinality(DOMAIN m)
      d1 == Cardinality(DOMAIN m[0])
      nr == IF Min(r, d0) > 1 THEN Min(r, d0) - 1 ELSE 0
  IN [i \in Range(nr) |-> [j \in Range(Min(c, d1)) |-> m[i + 1][j]]]

\* the cell before the call: a comes from the model, the sentences from
\* itos_list_de / itos_list_en of column indx_sentence_print;
\* attention = a[indx_sentence_print]
InitViz ==
  /\ vpc = "called"
  /\ \E S \in VizSrcLens, T \in LossTrgLens, B \in BatchSizes \ Range(INDX_SENTENCE_PRINT + 1) :
       /\ attention = ForwardAttn(B, S, T)[INDX_SENTENCE_PRINT]
       /\ viz_sentence \in SourceSentences(S)
       /\ translation \in PredictedSentences(T)
  /\ y_ticks = <<>> /\ x_ticks = <<>> /\ shown = <<>>
  /\ IdleForward /\ IdleTrain /\ IdleBleu /\ IdleCut /\ IdleLoss /\ IdleData /\ IdleParams /\ IdleSave /\ IdleShape

\* attention = attention.squeeze(1).detach().numpy()
VizSqueeze ==
  /\ vpc = "called"
  /\ attention' = SqueezeDim1(attention)
  /\ vpc' = "y_ticks"
  /\ UNCHANGED <<notz, viz_sentence, translation, y_ticks, x_ticks, shown>>

\* the loop over translation
VizYTicks ==
  /\ vpc = "y_ticks"
  /\ y_ticks' = TicksUpTo(translation)
  /\ vpc' = "x_ticks"
  /\ UNCHANGED <<notz, attention, viz_sentence, translation, x_ticks, shown>>

\* the loop over sentence; x_ticks = [''] + x_ticks
VizXTicks ==
  /\ vpc = "x_ticks"
  /\ x_ticks' = <<"">> \o TicksUpTo(viz_sentence)
  /\ vpc' = "slice"
  /\ UNCHANGED <<notz, attention, viz_sentence, translation, y_ticks, shown>>

\* attention = attention[1:len(y_ticks), :len(x_ticks)-1]
VizSlice ==
  /\ vpc = "slice"
  /\ attention' = SliceRowsCols(attention, Len(y_ticks), Len(x_ticks) - 1)
  /\ vpc' = "plot"
  /\ UNCHANGED <<notz, viz_sentence, translation, y_ticks, x_ticks, shown>>

\* ax.matshow(attention); ax.set_xticklabels(x_ticks); ax.set_yticklabels(y_ticks)
VizPlot ==
  /\ vpc = "plot"
  /\ shown' = [matrix |-> attention, xticklabels |-> x_ticks, yticklabels |-> y_ticks]
  /\ vpc' = "shown"
  /\ UNCHANGED <<notz, attention, viz_sentence, translation, y_ticks, x_ticks>>

NextViz == VizSqueeze \/ VizYTicks \/ VizXTicks \/ VizSlice \/ VizPlot

SpecViz == InitViz /\ [][NextViz]_vars

\* with a tick at every integer the first label sits left of (above) the
\* image: row or column k carries label number k + 1 (0-based)
TickLabel(labels, k) == IF k + 2 <= Len(labels) THEN labels[k + 2] ELSE ""

\* C15: the matrix shown has one row per target token after <sos> up to the
\* first <eos> and one column per source token up to the first <eos>; the
\* entry in row r, column c is the weight put on source token c when target
\* token r + 1 was generated; rows are labelled by the translation, columns
\* by the source sentence.
C15_AttentionMatrix ==
  vpc = "shown" =>
    LET nrows == Len(TicksUpTo(translation)) - 1
        ncols == Len(TicksUpTo(viz_sentence))
    IN /\ DOMAIN shown.matrix = Range(nrows)
       /\ \A r \in Range(nrows) :
            /\ DOMAIN shown.matrix[r] = Range(ncols)
            /\ TickLabel(shown.yticklabels, r) = translation[r + 2]
            /\ \A c \in Range(ncols) :
                 /\ shown.matrix[r][c] = <<"weight", INDX_SENTENCE_PRINT, c, r + 1>>
                 /\ TickLabel(shown.xticklabels, c) = viz_sentence[c + 1]

(* ===================== the modules and their parameters ================ *)
\* a parameter tensor: the object that created it, its name, its size
Param(owner, name, numel) == [id |-> <<owner, name>>, numel |-> numel, requires_grad |-> TRUE]

\* nn.Embedding(n, dim)
EmbeddingParams(owner, n, dim) == {Param(owner, "weight", n * dim)}

\* nn.GRU(input_size, hidden_size, num_layers): per layer the input and
\* hidden weights and biases of the three gates
GRUParams(owner, input_size, hidden_size, num_layers) ==
  UNION { { Param(owner, <<"weight_ih", l>>,
                  3 * hidden_size * (IF l = 0 THEN input_size ELSE hidden_size)),
            Param(owner, <<"weight_hh", l>>, 3 * hidden_size * hidden_size),
            Param(owner, <<"bias_ih", l>>, 3 * hidden_size),
            Param(owner, <<"bias_hh", l>>, 3 * hidden_size) } : l \in Range(num_layers) }

\* nn.Linear(in_features, out_features, bias)
LinearParams(owner, in_features, out_features, bias) ==
  {Param(owner, "weight", in_features * out_features)}
    \cup (IF bias THEN {Param(owner, "bias", out_features)} ELSE {})

\* a module without children
Leaf(tensors) == [own |-> tensors, children |-> <<>>]

\* Encoder.__init__: embedding_layer, dropout, gru
EncoderInit(h) ==
  [own |-> {},
   children |->
     [c \in {"embedding_layer", "dropout", "gru"} |->
        CASE c = "embedding_layer" ->
               Leaf(EmbeddingParams(<<"encoder", c>>, h.input_dim, h.embedding_dim_enc))
          [] c = "dropout" -> Leaf({})
          [] c = "gru" ->
               Leaf(GRUParams(<<"encoder", c>>, h.embedding_dim_enc, h.hidden_dim_enc, h.n_layers))]]

\* Attention.__init__: energy_layer = Sequential(Linear, Tanh), v = Linear
\* without bias
AttentionInit(h) ==
  [own |-> {},
   children |->
     [c \in {"energy_layer", "v"} |->
        CASE c = "energy_layer" ->
               Leaf(LinearParams(<<"attention", c>>, h.hidden_dim_enc + h.hidden_dim_dec,
                                 h.hidden_dim_dec, TRUE))
          [] c = "v" -> Leaf(LinearParams(<<"attention", c>>, h.hidden_dim_dec, 1, FALSE))]]

\* Decoder.__init__: embedding_layer, dropout_layer, gru, linear_layer, attention
DecoderInit(h) ==
  [own |-> {},
   children |->
     [c \in {"embedding_layer", "dropout_layer", "gru", "linear_layer", "attention"} |->
        CASE c = "embedding_layer" ->
               Leaf(EmbeddingParams(<<"decoder", c>>, h.output_dim, h.embedding_dim_dec))
          [] c = "dropout_layer" -> Leaf({})
          [] c = "gru" ->
               Leaf(GRUParams(<<"decoder", c>>, h.embedding_dim_dec + h.hidden_dim_enc,
                              h.hidden_dim_dec, h.n_layers))
          [] c = "linear_layer" ->
               Leaf(LinearParams(<<"decoder", c>>, h.hidden_dim_dec, h.output_dim, TRUE))
          [] c = "attention" -> AttentionInit(h)]]

\* a mutant of Seq2SeqInit: the model also owns a projection of its own
Seq2SeqInitOwnLayer(enc, dcd) ==
  [own |-> {Param("model", "weight", 1)},
   children |-> [c \in {"encoder", "decoder"} |-> IF c = "encoder" THEN enc ELSE dcd]]

\* Seq2Seq.__init__: self.encoder and self.decoder are registered as
\* submodules; self.trg_vocab_size is a plain integer attribute
Seq2SeqInit(enc, dcd) ==
  [own |-> {},
   children |-> [c \in {"encoder", "decoder"} |-> IF c = "encoder" THEN enc ELSE dcd]]

RECURSIVE Parameters(_)
\* module.parameters(): the parameters of the module and of its submodules,
\* each tensor once
Parameters(m) ==
  m.own \cup UNION { Parameters(m.children[c]) : c \in DOMAIN m.children }

RECURSIVE SumNumel(_)
SumNumel(ps) ==
  IF ps = {} THEN 0
  ELSE LET x == CHOOSE y \in ps : TRUE IN x.numel + SumNumel(ps \ {x})

\* sum(p.numel() for p in module.parameters() if p.requires_grad)
NumberOfParameters(m) == SumNumel({x \in Parameters(m) : x.requires_grad})

Dims == 1..MaxDim

InitParams ==
  /\ ppc = "start"
  /\ hp \in [input_dim : Dims, output_dim : Dims, embedding_dim_enc : Dims,
             embedding_dim_dec : Dims, hidden_dim_enc : Dims, hidden_dim_dec : Dims,
             n_layers : Dims]
  /\ encoder = NoModule /\ decoder = NoModule /\ model = NoModule
  /\ printed = <<>>
  /\ IdleForward /\ IdleTrain /\ IdleBleu /\ IdleCut /\ IdleLoss /\ IdleData /\ IdleViz /\ IdleSave /\ IdleShape

\* the cell that instantiates the encoder
BuildEncoder ==
  /\ ppc = "start"
  /\ encoder' = EncoderInit(hp)
  /\ ppc' = "encoder_built"
  /\ UNCHANGED <<notp, hp, decoder, model, printed>>

\* the cell that instantiates the decoder
BuildDecoder ==
  /\ ppc = "encoder_built"
  /\ decoder' = DecoderInit(hp)
  /\ ppc' = "decoder_built"
  /\ UNCHANGED <<notp, hp, encoder, model, printed>>

\* model = Seq2Seq(encoder, decoder)
BuildSeq2Seq ==
  /\ ppc = "decoder_built"
  /\ model' = Seq2SeqInit(encoder, decoder)
  /\ ppc' = "model_built"
  /\ UNCHANGED <<notp, hp, encoder, decoder, printed>>

\* print('Number of parameters:', sum(p.numel() for p in model.parameters() ...))
PrintParameters ==
  /\ ppc = "model_built"
  /\ printed' = [model |-> NumberOfParameters(model),
                 encoder |-> NumberOfParameters(encoder),
                 decoder |-> NumberOfParameters(decoder)]
  /\ ppc' = "printed"
  /\ UNCHANGED <<notp, hp, encoder, decoder, model>>

NextParams == BuildEncoder \/ BuildDecoder \/ BuildSeq2Seq \/ PrintParameters

SpecParams == InitParams /\ [][NextParams]_vars

\* C16: the number of parameters of the Seq2Seq model is the number of
\* parameters of its encoder plus that of its decoder; the model owns no
\* parameter and no parameter belongs to both.
C16_ParameterCount ==
  /\ ppc = "printed" => printed.model = printed.encoder + printed.decoder
  /\ ppc \in {"model_built", "printed"} =>
       /\ model.own = {}
       /\ Parameters(model) = Parameters(encoder) \cup Parameters(decoder)
       /\ Parameters(encoder) \cap Parameters(decoder) = {}

\* C16 witness: the counts were printed for an encoder and a decoder of two
\* layers with different hidden sizes
C16_Witness ==
  /\ ppc = "printed" /\ hp.n_layers = 2 /\ hp.hidden_dim_enc # hp.hidden_dim_dec
  /\ printed.encoder > 0 /\ printed.decoder > printed.encoder
  /\ Cardinality(Parameters(model)) = 23

(* ======================= saving and loading files ====================== *)
NP_FILEPATH == "x_np.npy"

TENSOR_FILEPATH == "x_tensor.pt"

Paths == {NP_FILEPATH, TENSOR_FILEPATH, "fnn_model.pt", "fnn_model_params.pt"}

NoFile == [format |-> "absent"]

\* a file left by something else under the same name
StaleFile == [format |-> "other"]

\* an array or tensor: element type, shape (one or two dimensions), entries
Tensor(dtype, shape, at) == [dtype |-> dtype, shape |-> shape, at |-> at]

\* the entries in C order, as they lie in a file or a storage
Ravel(a) ==
  IF Len(a.shape) = 1 THEN [k \in Range(a.shape[1]) |-> a.at[k]]
  ELSE [k \in Range(a.shape[1] * a.shape[2]) |-> a.at[k \div a.shape[2]][k % a.shape[2]]]

\* the entries of a flat sequence under a shape
Reshape(flat, shape) ==
  IF Len(shape) = 1 THEN [i \in Range(shape[1]) |-> flat[i]]
  ELSE [i \in Range(shape[1]) |-> [j \in Range(shape[2]) |-> flat[i * shape[2] + j]]]

\* np.ones((2,3))
NpOnes(shape) ==
  Tensor("float64", shape, [i \in Range(shape[1]) |-> [j \in Range(shape[2]) |-> 1]])

\* np.save(path, array): a header (type, shape) and the data in C order
NpSave(array) ==
  [format |-> "npy", descr |-> array.dtype, shape |-> array.shape, data |-> Ravel(array)]

\* np.load(path)
NpLoad(file) ==
  IF file.format = "npy"
  THEN [raised |-> "none", value |-> Tensor(file.descr, file.shape, Reshape(file.data, file.shape))]
  ELSE [raised |-> IF file.format = "absent" THEN "FileNotFoundError" ELSE "ValueError",
        value |-> <<>>]

\* torch.from_numpy(array): same type, shape and entries
FromNumpy(array) == Tensor(array.dtype, array.shape, array.at)

\* how torch.save writes one tensor: its type, size and storage
PickleTensor(x) == [dtype |-> x.dtype, size |-> x.shape, storage |-> Ravel(x)]

UnpickleTensor(r) == Tensor(r.dtype, r.size, Reshape(r.storage, r.size))

\* torch.save(obj, path) for a tensor, a module (nn.Linear) or a state_dict
TorchSave(kind, obj) ==
  CASE kind = "tensor" -> [format |-> "torch", kind |-> kind, obj |-> PickleTensor(obj)]
    [] kind = "module" ->
         [format |-> "torch", kind |-> kind,
          obj |-> [in_features |-> obj.in_features, out_features |-> obj.out_features,
                   weight |-> PickleTensor(obj.weight), bias |-> PickleTensor(obj.bias)]]
    [] kind = "state_dict" ->
         [format |-> "torch", kind |-> kind,
          obj |-> [k \in DOMAIN obj |-> PickleTensor(obj[k])]]

\* torch.load(path)
TorchLoad(file) ==
  IF file.format # "torch"
  THEN [raised |-> IF file.format = "absent" THEN "FileNotFoundError" ELSE "UnpicklingError",
        kind |-> "none", value |-> <<>>]
  ELSE [raised |-> "none", kind |-> file.kind,
        value |->
          CASE file.kind = "tensor" -> UnpickleTensor(file.obj)
            [] file.kind = "module" ->
                 [in_features |-> file.obj.in_features, out_features |-> file.obj.out_features,
                  weight |-> UnpickleTensor(file.obj.weight),
                  bias |-> UnpickleTensor(file.obj.bias)]
            [] file.kind = "state_dict" ->
                 [k \in DOMAIN file.obj |-> UnpickleTensor(file.obj[k])]]

\* nn.Linear(in_features, out_features) with the entries its random
\* initialisation (or training) gave: weight is [out_features][in_features]
Linear(in_features, out_features, seed) ==
  [in_features |-> in_features, out_features |-> out_features,
   weight |-> Tensor("float32", <<out_features, in_features>>,
                [o \in Range(out_features) |-> [i \in Range(in_features) |-> <<"w", seed, o, i>>]]),
   bias |-> Tensor("float32", <<out_features>>,
                [o \in Range(out_features) |-> <<"b", seed, o>>])]

\* module.state_dict()
LinearStateDict(m) == [k \in {"weight", "bias"} |-> IF k = "weight" THEN m.weight ELSE m.bias]

\* module.load_state_dict(loaded): the keys and the shapes must match
LoadStateDict(m, loaded) ==
  IF loaded.raised # "none" THEN [raised |-> loaded.raised, module |-> m]
  ELSE IF loaded.kind # "state_dict" THEN [raised |-> "TypeError", module |-> m]
  ELSE IF \/ DOMAIN loaded.value # {"weight", "bias"}
          \/ loaded.value["weight"].shape # m.weight.shape
          \/ loaded.value["bias"].shape # m.bias.shape
       THEN [raised |-> "RuntimeError", module |-> m]
  ELSE [raised |-> "none",
        module |-> [m EXCEPT !.weight = loaded.value["weight"], !.bias = loaded.value["bias"]]]

\* the layer of the notebook: linear_layer = nn.Linear(256, 2)
LayerShape == [in_features |-> 256, out_features |-> 2]

\* a mutant of FreshShape: the model instantiated before loading has its
\* sizes exchanged
FreshShapeSwapped == [in_features |-> 2, out_features |-> 256]

\* the model instantiated before loading: model = nn.Linear(256, 2)
FreshShape == [in_features |-> 256, out_features |-> 2]

\* what distinguishes one set of parameter values from another
Seeds == 1..MaxSeed

InitSave ==
  /\ spc = "np_save"
  /\ disk \in [Paths -> {NoFile, StaleFile}]
  /\ x_np = NpOnes(<<2, 3>>)
  /\ x_np_load = <<>> /\ x_tensor = <<>> /\ x_tensor_load = <<>>
  /\ \E seed \in Seeds :
       linear_layer = Linear(LayerShape.in_features, LayerShape.out_features, seed)
  /\ loaded_model = <<>>
  /\ raised = "none"
  /\ IdleForward /\ IdleTrain /\ IdleBleu /\ IdleCut /\ IdleLoss /\ IdleData /\ IdleViz /\ IdleParams /\ IdleShape

\* np.save(np_filepath, x_np)
CellNpSave ==
  /\ spc = "np_save"
  /\ disk' = [disk EXCEPT ![NP_FILEPATH] = NpSave(x_np)]
  /\ spc' = "np_load"
  /\ UNCHANGED <<nots, x_np, x_np_load, x_tensor, x_tensor_load, linear_layer, loaded_model, raised>>

\* x_np_load = np.load(np_filepath)
CellNpLoad ==
  /\ spc = "np_load"
  /\ LET r == NpLoad(disk[NP_FILEPATH])
     IN /\ x_np_load' = r.value
        /\ raised' = r.raised
        /\ spc' = IF r.raised = "none" THEN "from_numpy" ELSE "failed"
  /\ UNCHANGED <<nots, disk, x_np, x_tensor, x_tensor_load, linear_layer, loaded_model>>

\* x_tensor = torch.from_numpy(x_np)
CellFromNumpy ==
  /\ spc = "from_numpy"
  /\ x_tensor' = FromNumpy(x_np)
  /\ spc' = "tensor_save"
  /\ UNCHANGED <<nots, disk, x_np, x_np_load, x_tensor_load, linear_layer, loaded_model, raised>>

\* torch.save(x_tensor, tensor_filepath)
CellTensorSave ==
  /\ spc = "tensor_save"
  /\ disk' = [disk EXCEPT ![TENSOR_FILEPATH] = TorchSave("tensor", x_tensor)]
  /\ spc' = "tensor_load"
  /\ UNCHANGED <<nots, x_np, x_np_load, x_tensor, x_tensor_load, linear_layer, loaded_model, raised>>

\* x_tensor_load = torch.load(tensor_filepath)
CellTensorLoad ==
  /\ spc = "tensor_load"
  /\ LET r == TorchLoad(disk[TENSOR_FILEPATH])
     IN /\ x_tensor_load' = r.value
        /\ raised' = r.raised
        /\ spc' = IF r.raised = "none" THEN "module_save" ELSE "failed"
  /\ UNCHANGED <<nots, disk, x_np, x_np_load, x_tensor, linear_layer, loaded_model>>

\* torch.save(linear_layer, 'fnn_model.pt')
CellModuleSave ==
  /\ spc = "module_save"
  /\ disk' = [disk EXCEPT !["fnn_model.pt"] = TorchSave("module", linear_layer)]
  /\ spc' = "module_load"
  /\ UNCHANGED <<nots, x_np, x_np_load, x_tensor, x_tensor_load, linear_layer, loaded_model, raised>>

\* model = torch.load('fnn_model.pt')
CellModuleLoad ==
  /\ spc = "module_load"
  /\ LET r == TorchLoad(disk["fnn_model.pt"])
     IN /\ loaded_model' = r.value
        /\ raised' = r.raised
        /\ spc' = IF r.raised = "none" THEN "params_save" ELSE "failed"
  /\ UNCHANGED <<nots, disk, x_np, x_np_load, x_tensor, x_tensor_load, linear_layer>>

\* torch.save(linear_layer.state_dict(), 'fnn_model_params.pt')
CellParamsSave ==
  /\ spc = "params_save"
  /\ disk' = [disk EXCEPT !["fnn_model_params.pt"] =
                TorchSave("state_dict", LinearStateDict(linear_layer))]
  /\ spc' = "fresh"
  /\ UNCHANGED <<nots, x_np, x_np_load, x_tensor, x_tensor_load, linear_layer, loaded_model, raised>>

\* model = nn.Linear(256, 2): freshly initialised parameters
CellFreshModel ==
  /\ spc = "fresh"
  /\ \E seed \in Seeds :
       loaded_model' = Linear(FreshShape.in_features, FreshShape.out_features, <<"fresh", seed>>)
  /\ spc' = "params_load"
  /\ UNCHANGED <<nots, disk, x_np, x_np_load, x_tensor, x_tensor_load, linear_layer, raised>>

\* model.load_state_dict(torch.load('fnn_model_params.pt'))
CellParamsLoad ==
  /\ spc = "params_load"
  /\ LET r == LoadStateDict(loaded_model, TorchLoad(disk["fnn_model_params.pt"]))
     IN /\ loaded_model' = r.module
        /\ raised' = r.raised
        /\ spc' = IF r.raised = "none" THEN "done" ELSE "failed"
  /\ UNCHANGED <<nots, disk, x_np, x_np_load, x_tensor, x_tensor_load, linear_layer>>

NextSave ==
  \/ CellNpSave \/ CellNpLoad \/ CellFromNumpy \/ CellTensorSave \/ CellTensorLoad
  \/ CellModuleSave \/ CellModuleLoad \/ CellParamsSave \/ CellFreshModel \/ CellParamsLoad

SpecSave == InitSave /\ [][NextSave]_vars

MaxLayers == 2

Layers == 1..MaxLayers

Ok(value) == [raised |-> "none", where |-> "none", value |-> value]

Raise(where) == [raised |-> "RuntimeError", where |-> where, value |-> <<>>]

\* x.squeeze(): every dimension of size 1 is removed
SqueezeAll(x) == SelectSeq(x, LAMBDA n : n # 1)

\* x.squeeze(d): dimension d is removed if its size is 1
SqueezeAt(x, d) ==
  IF d + 1 \in DOMAIN x /\ x[d + 1] = 1
  THEN [i \in 1..(Len(x) - 1) |-> IF i <= d THEN x[i] ELSE x[i + 1]]
  ELSE x

\* x.unsqueeze(d)
Unsqueeze(x, d) ==
  [i \in 1..(Len(x) + 1) |-> IF i <= d THEN x[i] ELSE IF i = d + 1 THEN 1 ELSE x[i - 1]]

\* x.repeat(*sizes): fewer sizes than dimensions is an error; missing
\* leading dimensions of x count as 1
Repeat(x, sizes) ==
  IF Len(sizes) < Len(x) THEN Raise("repeat")
  ELSE LET pad == Len(sizes) - Len(x)
       IN Ok([i \in 1..Len(sizes) |-> sizes[i] * (IF i <= pad THEN 1 ELSE x[i - pad])])

\* x.permute(1, 0, 2)
Permute102(x) ==
  IF Len(x) # 3 THEN Raise("permute") ELSE Ok(<<x[2], x[1], x[3]>>)

\* torch.cat((x, y), dim = d): same rank, same sizes except in dimension d
Cat(x, y, d) ==
  IF /\ Len(x) = Len(y)
     /\ d + 1 \in DOMAIN x
     /\ \A i \in DOMAIN x : i # d + 1 => x[i] = y[i]
  THEN Ok([x EXCEPT ![d + 1] = x[d + 1] + y[d + 1]])
  ELSE Raise("cat")

\* nn.Linear(in_features, out_features)(x): the last size of x is in_features
LinearForward(in_features, out_features, x, where) ==
  IF Len(x) >= 1 /\ x[Len(x)] = in_features
  THEN Ok([x EXCEPT ![Len(x)] = out_features])
  ELSE Raise(where)

\* torch.bmm(x, y): [b, n, m] times [b, m, p]
Bmm(x, y) ==
  IF Len(x) = 3 /\ Len(y) = 3 /\ x[1] = y[1] /\ x[3] = y[2]
  THEN Ok(<<x[1], x[2], y[3]>>)
  ELSE Raise("bmm")

\* nn.GRU(input_size, hidden_size, num_layers)(*args), args = (input,) or
\* (input, h_0): input is [seq, batch, input_size] and h_0, when given, is
\* exactly [num_layers, batch, hidden_size]. Returns (output, h_n).
GRUForward(gru, args) ==
  LET input == args[1]
  IN IF Len(input) # 3 \/ input[3] # gru.input_size THEN Raise("gru_input")
     ELSE IF Len(args) = 2 /\ args[2] # <<gru.num_layers, input[2], gru.hidden_size>>
     THEN Raise("gru_hidden")
     ELSE Ok([output |-> <<input[1], input[2], gru.hidden_size>>,
              hidden |-> <<gru.num_layers, input[2], gru.hidden_size>>])

\* target[index] = value: value must broadcast to the shape of the slice
Broadcasts(value, slice) ==
  /\ Len(value) <= Len(slice)
  /\ \A i \in DOMAIN value :
       LET n == slice[i + Len(slice) - Len(value)]
       IN value[i] = n \/ value[i] = 1

\* the layers Encoder.__init__ creates
EncoderLayers(d) ==
  [gru |-> [input_size |-> d.embedding_dim_enc, hidden_size |-> d.hidden_dim_enc,
            num_layers |-> d.n_layers_enc]]

\* the layers Attention.__init__ creates
AttentionLayers(hidden_dim_enc, hidden_dim_dec) ==
  [energy_layer |-> [in_features |-> hidden_dim_enc + hidden_dim_dec,
                     out_features |-> hidden_dim_dec],
   v |-> [in_features |-> hidden_dim_dec, out_features |-> 1]]

\* the layers Decoder.__init__ creates; its hidden_dim_enc argument is the
\* encoder's (instantiation cell)
DecoderLayers(d) ==
  [gru |-> [input_size |-> d.embedding_dim_dec + d.hidden_dim_enc,
            hidden_size |-> d.hidden_dim_dec, num_layers |-> d.n_layers_dec],
   linear_layer |-> [in_features |-> d.hidden_dim_dec, out_features |-> d.output_dim],
   attention |-> AttentionLayers(d.hidden_dim_enc, d.hidden_dim_dec)]

\* Encoder.forward(src): (enc_outputs, enc_context)
EncoderForward(d, src_shape) ==
  GRUForward(EncoderLayers(d).gru, <<src_shape \o <<d.embedding_dim_enc>>>>)

\* Attention.forward(dec_hidden, enc_outputs)
AttentionForward(layers, dec_hidden, enc_out) ==
  LET seq_len == enc_out[1]
      rep == Repeat(Unsqueeze(SqueezeAll(dec_hidden), 0), <<seq_len, 1, 1>>)
  IN IF rep.raised # "none" THEN rep
     ELSE LET dh == Permute102(rep.value)
              eo == Permute102(enc_out)
          IN IF dh.raised # "none" THEN dh
             ELSE IF eo.raised # "none" THEN eo
             ELSE LET comb_inputs == Cat(dh.value, eo.value, 2)
                  IN IF comb_inputs.raised # "none" THEN comb_inputs
                     ELSE LET energy == LinearForward(layers.energy_layer.in_features,
                                                      layers.energy_layer.out_features,
                                                      comb_inputs.value, "energy_layer")
                          IN IF energy.raised # "none" THEN energy
                             ELSE LET e == LinearForward(layers.v.in_features,
                                                         layers.v.out_features,
                                                         energy.value, "v")
                                  IN IF e.raised # "none" THEN e
                                     ELSE Ok(SqueezeAt(e.value, 2))

\* the weighted vector and the GRU input of Decoder.forward
DecoderRnnInput(y, a, enc_out) ==
  LET eo == Permute102(enc_out)
  IN IF eo.raised # "none" THEN eo
     ELSE LET weighted == Bmm(a, eo.value)
          IN IF weighted.raised # "none" THEN weighted
             ELSE LET w == Permute102(weighted.value)
                  IN IF w.raised # "none" THEN w ELSE Cat(y, w.value, 2)

DecoderGRUArgsNoHidden(rnn_input, input_hidden) == <<rnn_input>>

\* the arguments of self.gru(rnn_input, input_hidden) in Decoder.forward
DecoderGRUArgs(rnn_input, input_hidden) == <<rnn_input, input_hidden>>

ShapeDims ==
  [hidden_dim_enc : Dims, hidden_dim_dec : Dims,
   n_layers_enc : Layers, n_layers_dec : Layers,
   embedding_dim_enc : Dims, embedding_dim_dec : Dims,
   output_dim : {VocabSize},
   batch_size : BatchSizes, src_len : SrcLens, trg_len : TrgLens]

NoLocals == [y |-> <<>>, a |-> <<>>, rnn_input |-> <<>>, output |-> <<>>, pred_proba |-> <<>>]

InitShape ==
  /\ qpc = "encoder"
  /\ dims \in ShapeDims
  /\ q_enc = <<>> /\ hidden_shape = <<>> /\ q_t = 0
  /\ q_dec = NoLocals /\ q_steps = 0 /\ q_error = NoError
  /\ IdleForward /\ IdleTrain /\ IdleBleu /\ IdleCut /\ IdleLoss /\ IdleData /\ IdleViz /\ IdleParams /\ IdleSave

ShapeFail(r) ==
  /\ qpc' = "failed"
  /\ q_error' = [raised |-> r.raised, where |-> r.where, step |-> q_t]

\* enc_outputs, hidden = self.encoder(src)
ShapeEncoder ==
  /\ qpc = "encoder"
  /\ LET r == EncoderForward(dims, <<dims.src_len, dims.batch_size>>)
     IN IF r.raised # "none"
        THEN ShapeFail(r) /\ UNCHANGED <<q_enc, hidden_shape, q_t>>
        ELSE /\ q_enc' = r.value.output
             /\ hidden_shape' = r.value.hidden
             /\ q_t' = 1
             /\ qpc' = "loop"
             /\ UNCHANGED q_error
  /\ UNCHANGED <<notq, dims, q_dec, q_steps>>

\* for t in range(1, trg_len); return pred_probas, attn
ShapeLoop ==
  /\ qpc = "loop"
  /\ qpc' = IF q_t < dims.trg_len THEN "embed" ELSE "done"
  /\ q_dec' = NoLocals
  /\ UNCHANGED <<notq, dims, q_enc, hidden_shape, q_t, q_steps, q_error>>

\* y = self.dropout_layer(self.embedding_layer(input_idx)).unsqueeze(0)
ShapeEmbed ==
  /\ qpc = "embed"
  /\ q_dec' = [q_dec EXCEPT !.y = Unsqueeze(<<dims.batch_size, dims.embedding_dim_dec>>, 0)]
  /\ qpc' = "attention"
  /\ UNCHANGED <<notq, dims, q_enc, hidden_shape, q_t, q_steps, q_error>>

\* a = self.attention(input_hidden, enc_outputs); a = a.unsqueeze(1)
ShapeAttention ==
  /\ qpc = "attention"
  /\ LET r == AttentionForward(DecoderLayers(dims).attention, hidden_shape, q_enc)
     IN IF r.raised # "none"
        THEN ShapeFail(r) /\ UNCHANGED q_dec
        ELSE /\ q_dec' = [q_dec EXCEPT !.a = Unsqueeze(r.value, 1)]
             /\ qpc' = "weighted"
             /\ UNCHANGED q_error
  /\ UNCHANGED <<notq, dims, q_enc, hidden_shape, q_t, q_steps>>

\* weighted = torch.bmm(a, enc_outputs) ...; rnn_input = torch.cat((y, weighted), dim=2)
ShapeWeighted ==
  /\ qpc = "weighted"
  /\ LET r == DecoderRnnInput(q_dec.y, q_dec.a, q_enc)
     IN IF r.raised # "none"
        THEN ShapeFail(r) /\ UNCHANGED q_dec
        ELSE /\ q_dec' = [q_dec EXCEPT !.rnn_input = r.value]
             /\ qpc' = "gru"
             /\ UNCHANGED q_error
  /\ UNCHANGED <<notq, dims, q_enc, hidden_shape, q_t, q_steps>>

\* output, hidden = self.gru(rnn_input, input_hidden)
ShapeGRU ==
  /\ qpc = "gru"
  /\ LET r == GRUForward(DecoderLayers(dims).gru, DecoderGRUArgs(q_dec.rnn_input, hidden_shape))
     IN IF r.raised # "none"
        THEN ShapeFail(r) /\ UNCHANGED <<q_dec, hidden_shape>>
        ELSE /\ q_dec' = [q_dec EXCEPT !.output = r.value.output]
             /\ hidden_shape' = r.value.hidden
             /\ qpc' = "linear"
             /\ UNCHANGED q_error
  /\ UNCHANGED <<notq, dims, q_enc, q_t, q_steps>>

\* output = output.squeeze(0); pred_proba = self.linear_layer(output); return
ShapeLinear ==
  /\ qpc = "linear"
  /\ LET lin == DecoderLayers(dims).linear_layer
         r == LinearForward(lin.in_features, lin.out_features,
                            SqueezeAt(q_dec.output, 0), "linear_layer")
     IN IF r.raised # "none"
        THEN ShapeFail(r) /\ UNCHANGED <<q_dec, q_steps>>
        ELSE /\ q_dec' = [q_dec EXCEPT !.pred_proba = r.value]
             /\ q_steps' = q_steps + 1
             /\ qpc' = "store"
             /\ UNCHANGED q_error
  /\ UNCHANGED <<notq, dims, q_enc, hidden_shape, q_t>>

\* pred_probas[t, :, :] = pred_proba_t; input_idx = argmax; attn[:, :, t] = a.squeeze()
ShapeStore ==
  /\ qpc = "store"
  /\ IF ~Broadcasts(q_dec.pred_proba, <<dims.batch_size, dims.output_dim>>)
     THEN ShapeFail(Raise("pred_probas")) /\ UNCHANGED q_t
     ELSE IF ~Broadcasts(SqueezeAll(q_dec.a), <<dims.batch_size, dims.src_len>>)
     THEN ShapeFail(Raise("attn")) /\ UNCHANGED q_t
     ELSE /\ q_t' = q_t + 1
          /\ qpc' = "loop"
          /\ UNCHANGED q_error
  /\ UNCHANGED <<notq, dims, q_enc, hidden_shape, q_dec, q_steps>>

NextShape ==
  \/ ShapeEncoder \/ ShapeLoop \/ ShapeEmbed \/ ShapeAttention
  \/ ShapeWeighted \/ ShapeGRU \/ ShapeLinear \/ ShapeStore

SpecShape == InitShape /\ [][NextShape]_vars

\* C19: the hidden state the encoder returned is the one the first decoder
\* call receives; a decoder call returns only if hidden_dim_enc equals
\* hidden_dim_dec and encoder and decoder have the same number of layers;
\* with hidden_dim_enc different from hidden_dim_dec and a target of two or
\* more positions, forward ends in a RuntimeError raised in the first
\* decoder call (t = 1), never by returning predictions.
C19_ShapeConsistency ==
  qpc \notin {"idle", "encoder"} =>
    /\ (q_t = 1 /\ qpc \in {"embed", "attention", "weighted", "gru"}) =>
         hidden_shape = <<dims.n_layers_enc, dims.batch_size, dims.hidden_dim_enc>>
    /\ q_steps >= 1 =>
         /\ dims.hidden_dim_enc = dims.hidden_dim_dec
         /\ dims.n_layers_enc = dims.n_layers_dec
    /\ dims.hidden_dim_enc # dims.hidden_dim_dec =>
         /\ q_steps = 0
         /\ q_t <= 1
         /\ (qpc = "done" => dims.trg_len = 1)
         /\ (qpc = "failed" => q_error.raised = "RuntimeError" /\ q_error.step = 1)
         /\ (qpc \in {"done", "failed"} /\ dims.trg_len >= 2) => qpc = "failed"

\* C19 witness: a one-layer encoder and decoder with different hidden sizes,
\* and the first decoder call raised in the attention's energy layer
C19_Witness ==
  /\ qpc = "failed"
  /\ dims.hidden_dim_enc # dims.hidden_dim_dec
  /\ dims.n_layers_enc = 1 /\ dims.n_layers_dec = 1 /\ dims.batch_size = 2
  /\ q_error = [raised |-> "RuntimeError", where |-> "energy_layer", step |-> 1]
  /\ hidden_shape = <<1, 2, dims.hidden_dim_enc>>

====
